---- MODULE Spec2Model ----
\* Versioned, Merkleized AVL tree (iavl): MutableTree over a node database.
\* Node handles (Arc<RwLock<Node>>) are heap addresses; the key-value store
\* maps NodeKeys (version, nonce) to wire records.
EXTENDS Integers, Sequences, FiniteSets, TLC

\* ---------------------------------------------------------------- bounds
MaxKey == 4
MaxVal == 2
MaxVersion == 2
MaxOps == 6
MaxKeyBal == 5
MaxReaders == 2
MaxKeyLock == 5
MaxOpsLock == 3
MaxOpsBal == 6
MaxOpsRot == 6
MaxKeyFault == 3
MaxNonceFault == 3
MaxOpsFault == 5
MaxOpsLimit == 3
MaxLeavesOrder == 4
MaxKeyReload == 2
MaxVersionReload == 3
MaxOpsReload == 9
MaxVersionDb == 1
MaxNonceDb == 2
MaxOpsDb == 2
MaxKeyChild == 5
MaxOpsChild == 2

Keys == 1..MaxKey
Vals == 1..MaxVal
KeysBal == 1..MaxKeyBal
KeysLock == 1..MaxKeyLock
KeysFault == 1..MaxKeyFault
KeysReload == 1..MaxKeyReload
KeysChild == 1..MaxKeyChild

\* ------------------------------------------------------- integer domains
\* U7::MAX and U31::MAX; U63::MAX (2^63 - 1) lies outside the 32-bit
\* integers of the model and is represented by the largest value whose
\* zig-zag encoding fits them (2^30 - 1)
U7Max == 127
U31Max == 2147483647
U63Max == 1073741823

Max(a, b) == IF a >= b THEN a ELSE b

\* let x = ...; F(x) : the value of F at x, with x computed once
Bind(x, F(_)) == CHOOSE y \in {F(v) : v \in {x}} : TRUE

\* ------------------------------------------------------------ node model
NoNk == <<0, 0>>
NoHash == <<>>

\* Child::Full(handle) / Child::Part(node key); leaves have no children
NoChild == [full |-> FALSE, h |-> 0, nk |-> NoNk]
Full(h) == [full |-> TRUE, h |-> h, nk |-> NoNk]
Part(nk) == [full |-> FALSE, h |-> 0, nk |-> nk]

\* LeafNode::builder() : a Drafted leaf (HEIGHT = 0, SIZE = 1)
DraftedLeaf(k, v) ==
    [leaf |-> TRUE, saved |-> FALSE, key |-> k, value |-> v,
     height |-> 0, size |-> 1, left |-> NoChild, right |-> NoChild,
     version |-> 0, nonce |-> 0, hash |-> NoHash, cnk |-> <<NoNk, NoNk>>]

\* InnerNode::builder() : a Drafted inner node
DraftedInner(k, ht, sz, l, r) ==
    [leaf |-> FALSE, saved |-> FALSE, key |-> k, value |-> 0,
     height |-> ht, size |-> sz, left |-> l, right |-> r,
     version |-> 0, nonce |-> 0, hash |-> NoHash, cnk |-> <<NoNk, NoNk>>]

\* From<&Node> for DraftedNode : a Drafted copy sharing the children
AsDrafted(n) ==
    [n EXCEPT !.saved = FALSE, !.version = 0, !.nonce = 0,
              !.hash = NoHash, !.cnk = <<NoNk, NoNk>>]

\* SavedNode::node_key
node_key(n) == <<n.version, n.nonce>>

\* ----------------------------------------------------- encoding / hashing
\* the value written as it is, without the zig-zag step
Unsigned(x) == x

\* zig-zag varint of a non-negative signed integer, and its inverse
Zz(x) == 2 * x
UnZz(t) == IF t % 2 = 0 THEN t \div 2 ELSE 0 - ((t + 1) \div 2)

\* first byte of the varint that encodes token t
VarintFirstByte(t) == IF t < 128 THEN t ELSE 128 + (t % 128)

\* SHA-256 is modelled as an injective constructor over the hashed tokens
LeafHash(version, k, v) == <<0, 2, Zz(version), k, <<v>> >>
InnerHash(ht, sz, version, lh, rh) == <<Zz(ht), Zz(sz), Zz(version), lh, rh>>
EMPTY_ROOT_HASH == <<0>>

\* LeafNode<Drafted>::to_hashed(version).into_saved(nonce)
SavedLeaf(n, version, nonce) ==
    [n EXCEPT !.saved = TRUE, !.version = version, !.nonce = nonce,
              !.hash = LeafHash(version, n.key, n.value)]

EMPTY_ROOT_MARKER == 255
NODE_DB_KEY_PREFIX == 115
LEGACY_MODE == 0
NEW_ROOT_NONCE == 1

\* SavedNode::serialize : the wire record as a sequence of tokens
serialize(n) ==
    IF n.leaf
    THEN <<0, 2, n.key, n.value>>
    ELSE <<Zz(n.height), Zz(n.size), n.key, n.hash, LEGACY_MODE,
           Zz(n.cnk[1][1]), Zz(n.cnk[1][2]), Zz(n.cnk[2][1]), Zz(n.cnk[2][2])>>

\* DeserializedNode::deserialize : [ok, node (Drafted, Part children), hash]
deserialize(bz) ==
    LET ht == UnZz(bz[1])
        sz == UnZz(bz[2])
    IN  IF ht < 0 \/ ht > U7Max \/ sz < 0
        THEN [ok |-> FALSE, node |-> DraftedLeaf(0, 0), hash |-> NoHash]
        ELSE IF ht = 0
        THEN [ok |-> TRUE, node |-> DraftedLeaf(bz[3], bz[4]), hash |-> NoHash]
        ELSE IF bz[5] # 0 \/ UnZz(bz[6]) < 0 \/ UnZz(bz[7]) < 0
                \/ UnZz(bz[8]) < 0 \/ UnZz(bz[9]) < 0
        THEN [ok |-> FALSE, node |-> DraftedLeaf(0, 0), hash |-> NoHash]
        ELSE [ok |-> TRUE,
              node |-> DraftedInner(bz[3], ht, sz,
                                    Part(<<UnZz(bz[6]), UnZz(bz[7])>>),
                                    Part(<<UnZz(bz[8]), UnZz(bz[9])>>)),
              hash |-> bz[4]]

\* make_fetched_node : dispatch on the first byte of the stored value
make_fetched_node(bz) ==
    IF VarintFirstByte(bz[1]) = EMPTY_ROOT_MARKER
    THEN [t |-> "EmptyRoot", ok |-> TRUE, nk |-> NoNk,
          node |-> DraftedLeaf(0, 0), hash |-> NoHash]
    ELSE IF VarintFirstByte(bz[1]) = NODE_DB_KEY_PREFIX
    THEN [t |-> "ReferenceRoot", ok |-> TRUE, nk |-> <<bz[2], bz[3]>>,
          node |-> DraftedLeaf(0, 0), hash |-> NoHash]
    ELSE Bind(deserialize(bz), LAMBDA d :
             [t |-> "Deserialized", ok |-> d.ok, nk |-> NoNk,
              node |-> d.node, hash |-> d.hash])

\* DeserializedNode::into_saved_checked(nk) : the Saved node of a record
into_saved_checked(f, nk) ==
    IF f.node.leaf
    THEN SavedLeaf(f.node, nk[1], nk[2])
    ELSE [f.node EXCEPT !.saved = TRUE, !.version = nk[1], !.nonce = nk[2],
                        !.hash = f.hash,
                        !.cnk = <<f.node.left.nk, f.node.right.nk>>]

\* ------------------------------------------------------------- node db
\* the node keys on which the key-value store fails: a call of the store for
\* one of them returns Err
VARIABLE bad

\* what a caller of the node db gets when the call returned Err
FetchErr == [t |-> "Deserialized", ok |-> FALSE, nk |-> NoNk,
             node |-> DraftedLeaf(0, 0), hash |-> NoHash]

\* NodeDb::fetch_one_node : [found, f] ; an Err of the store or of the
\* deserialization is f.ok = FALSE
fetch_one_node(st, nk) ==
    IF nk \in bad THEN [found |-> TRUE, f |-> FetchErr]
    ELSE IF nk \in DOMAIN st
    THEN [found |-> TRUE, f |-> make_fetched_node(st[nk])]
    ELSE [found |-> FALSE, f |-> make_fetched_node(<<EMPTY_ROOT_MARKER>>)]

\* NodeDb::save_overwriting_one_node
save_overwriting_one_node(st, n) == (node_key(n) :> serialize(n)) @@ st

\* an empty-root marker written under the nonce U31::MIN
save_empty_root_at_min_nonce(st, version) ==
    (<<version, 0>> :> <<EMPTY_ROOT_MARKER>>) @@ st

\* NodeDb::save_overwriting_empty_root
save_overwriting_empty_root(st, version) ==
    (<<version, NEW_ROOT_NONCE>> :> <<EMPTY_ROOT_MARKER>>) @@ st

\* a root record that forgets the node key it should point to
save_reference_root_as_empty(st, version, nk) ==
    (<<version, NEW_ROOT_NONCE>> :> <<EMPTY_ROOT_MARKER>>) @@ st

\* NodeDb::save_overwriting_reference_root
save_overwriting_reference_root(st, version, nk) ==
    (<<version, NEW_ROOT_NONCE>> :> <<NODE_DB_KEY_PREFIX, nk[1], nk[2]>>) @@ st

\* result record of the recursive tree operations
\*   st    : "ok" | "err" (an Err return) | "panic" (unwrap / assert failure)
\*   heap  : the heap after the call
\*   h     : a handle (0 = None)
Res(s, hp, h) == [st |-> s, heap |-> hp, h |-> h]

\* Child::fetch_full : the handle of a Full child, or a fresh handle holding
\* the Saved node loaded from the store for a Part child
fetch_full(hp, st, c) ==
    IF c.full THEN Res("ok", hp, c.h)
    ELSE Bind(fetch_one_node(st, c.nk), LAMBDA r :
             IF ~r.found THEN Res("err", hp, 0)
             ELSE IF r.f.t # "Deserialized" \/ ~r.f.ok THEN Res("err", hp, 0)
             ELSE Res("ok", Append(hp, into_saved_checked(r.f, c.nk)), Len(hp) + 1))

\* the error of Child::fetch_full on child c, "none" when it returns Ok: the
\* error of the store or of into_saved_checked comes first (`?`), a root
\* record is InvalidChild, no record is ChildNotFound
fetch_full_error(st, c) ==
    IF c.full THEN "none"
    ELSE Bind(fetch_one_node(st, c.nk), LAMBDA r :
             IF ~r.found THEN "ChildNotFound"
             ELSE IF r.f.t \in {"EmptyRoot", "ReferenceRoot"} THEN "InvalidChild"
             ELSE IF ~r.f.ok THEN "Other"
             ELSE "none")

\* extract_full (closure of make_balanced) : as fetch_full, but a non-node
\* record is unreachable!()
extract_full_fetch(hp, st, c) ==
    IF c.full THEN Res("ok", hp, c.h)
    ELSE Bind(fetch_one_node(st, c.nk), LAMBDA r :
             IF ~r.found THEN Res("err", hp, 0)
             ELSE IF r.f.t # "Deserialized" THEN Res("panic", hp, 0)
             ELSE IF ~r.f.ok THEN Res("err", hp, 0)
             ELSE Res("ok", Append(hp, into_saved_checked(r.f, c.nk)), Len(hp) + 1))

\* an extract that leaves a reference to no node behind
extract_replacement_lost(hp, c) ==
    IF ~c.full THEN c
    ELSE IF hp[c.h].saved THEN Part(NoNk) ELSE c

\* Child::extract : what stays behind in the parent when a child is taken:
\* a Part reference for a Saved child, the same Full handle for a Drafted one
extract_replacement(hp, c) ==
    IF ~c.full THEN c
    ELSE IF hp[c.h].saved THEN Part(node_key(hp[c.h])) ELSE c

\* ------------------------------------------------------------- Node::get
\* a descent that also sends the key equal to the separator to the left
GetGoesLeftOnEqual(k, node_k) == k <= node_k

\* the descent test of Node::get : key < self.key
GetGoesLeft(k, node_k) == k < node_k

\* the index a right-hand result is lifted to : i + (self.size - right_size)
get_right(n, right_size, r) ==
    IF r.st # "ok" THEN r
    ELSE IF n.size < right_size \/ r.idx + (n.size - right_size) > U63Max
    THEN [st |-> "panic", idx |-> 0, val |-> 0]
    ELSE [st |-> "ok", idx |-> r.idx + (n.size - right_size), val |-> r.val]

\* [st, idx, val] ; val = 0 is None
RECURSIVE get(_, _, _, _)
get(hp, st, h, k) ==
    LET n == hp[h]
    IN  IF n.leaf
        THEN [st |-> "ok", idx |-> 0, val |-> IF k = n.key THEN n.value ELSE 0]
        ELSE IF GetGoesLeft(k, n.key)
        THEN Bind(fetch_full(hp, st, n.left), LAMBDA f :
                 IF f.st # "ok" THEN [st |-> f.st, idx |-> 0, val |-> 0]
                 ELSE get(f.heap, st, f.h, k))
        ELSE Bind(fetch_full(hp, st, n.right), LAMBDA f :
                 IF f.st # "ok" THEN [st |-> f.st, idx |-> 0, val |-> 0]
                 ELSE Bind(get(f.heap, st, f.h, k), LAMBDA r :
                          get_right(n, f.heap[f.h].size, r)))

\* ------------------------------------------------------ AVL rebalancing
\* result of an operation that yields a node value not yet behind a handle
NRes(s, hp, n) == [st |-> s, heap |-> hp, node |-> n]

\* the child slot of the node behind handle h
ChildOf(hp, h, side) == IF side = "left" THEN hp[h].left ELSE hp[h].right

\* child.extract() on the node behind handle h : the slot keeps extract's
\* replacement
extract(hp, h, side) ==
    IF side = "left" THEN [hp EXCEPT ![h].left = extract_replacement(hp, @)]
    ELSE [hp EXCEPT ![h].right = extract_replacement(hp, @)]

\* child.extract() followed by extract_full's fetch (make_balanced)
TakeFull(hp, st, h, side) ==
    Bind(extract(hp, h, side), LAMBDA hp1 :
        extract_full_fetch(hp1, st, ChildOf(hp, h, side)))

\* child.extract() followed by Child::fetch_full (recursive_insert/remove)
TakeFetch(hp, st, h, side) ==
    Bind(extract(hp, h, side), LAMBDA hp1 :
        fetch_full(hp1, st, ChildOf(hp, h, side)))

\* a parent no higher than its higher child
ParentHeightOfChild(lh, rh) == Max(lh, rh)

\* height of a node built over two children
ParentHeight(lh, rh) == Max(lh, rh) + 1

\* size that make_balanced gives a node it synthesizes
RotatedSize(ls, rs) == ls + rs + 1

\* a test that lets a height difference of two pass
IsWithinTwo(diff) == diff >= -2 /\ diff <= 2

\* the (-1..=1).contains(&diff) test of make_balanced
IsBalanced(diff) == diff >= -1 /\ diff <= 1

\* a node synthesized by a rotation; Overflow when height or size leave
\* their domains
RotNode(hp, k, l, r) ==
    LET ht == ParentHeight(hp[l].height, hp[r].height)
        sz == RotatedSize(hp[l].size, hp[r].size)
    IN  IF ht > U7Max \/ sz > U63Max
        THEN NRes("err", hp, DraftedLeaf(0, 0))
        ELSE NRes("ok", hp, DraftedInner(k, ht, sz, Full(l), Full(r)))

\* single rotation: root (rk: a, (ik: b, c)) when inner is on the right,
\* root (rk: (ik: a, b), c) when it is on the left
RotSingle(hp, rk, ik, a, b, c, innerRight) ==
    Bind(IF innerRight THEN RotNode(hp, ik, b, c) ELSE RotNode(hp, ik, a, b),
         LAMBDA i :
            IF i.st # "ok" THEN i
            ELSE Bind(Append(hp, i.node), LAMBDA hp1 :
                     IF innerRight THEN RotNode(hp1, rk, a, Len(hp1))
                                   ELSE RotNode(hp1, rk, Len(hp1), c)))

\* double rotation: root (rk: (lk: a, b), (rgk: c, d))
RotDouble(hp, rk, lk, rgk, a, b, c, d) ==
    Bind(RotNode(hp, lk, a, b), LAMBDA nl :
    Bind(RotNode(hp, rgk, c, d), LAMBDA nr :
        IF nl.st # "ok" THEN nl
        ELSE IF nr.st # "ok" THEN nr
        ELSE Bind(Append(Append(hp, nl.node), nr.node), LAMBDA hp1 :
                 RotNode(hp1, rk, Len(hp) + 1, Len(hp) + 2))))

\* left-heavy branch of make_balanced (diff > 1)
BalanceLeft(hp0, st, self, left, right) ==
    IF hp0[left].leaf THEN NRes("panic", hp0, self) ELSE
    Bind(TakeFull(hp0, st, left, "left"), LAMBDA t1 :
    IF t1.st # "ok" THEN NRes(t1.st, t1.heap, self) ELSE
    Bind(TakeFull(t1.heap, st, left, "right"), LAMBDA t2 :
    IF t2.st # "ok" THEN NRes(t2.st, t2.heap, self) ELSE
    LET hp == t2.heap
        ll == t1.h
        lr == t2.h
        left_diff == hp[ll].height - hp[lr].height
    IN  IF left_diff >= 0
        THEN \* left-left case: one right rotation on self
             RotSingle(hp, hp[left].key, self.key, ll, lr, right, TRUE)
        ELSE \* left-right case
             IF hp[lr].leaf THEN NRes("panic", hp, self) ELSE
             Bind(TakeFull(hp, st, lr, "left"), LAMBDA t3 :
             IF t3.st # "ok" THEN NRes(t3.st, t3.heap, self) ELSE
             Bind(TakeFull(t3.heap, st, lr, "right"), LAMBDA t4 :
             IF t4.st # "ok" THEN NRes(t4.st, t4.heap, self) ELSE
                 RotDouble(t4.heap, t4.heap[lr].key, t4.heap[left].key, self.key,
                           ll, t3.h, t4.h, right)))))

\* right-heavy branch of make_balanced (diff < -1)
BalanceRight(hp0, st, self, left, right) ==
    IF hp0[right].leaf THEN NRes("panic", hp0, self) ELSE
    Bind(TakeFull(hp0, st, right, "left"), LAMBDA t1 :
    IF t1.st # "ok" THEN NRes(t1.st, t1.heap, self) ELSE
    Bind(TakeFull(t1.heap, st, right, "right"), LAMBDA t2 :
    IF t2.st # "ok" THEN NRes(t2.st, t2.heap, self) ELSE
    LET hp == t2.heap
        rl == t1.h
        rr == t2.h
        right_diff == hp[rl].height - hp[rr].height
    IN  IF right_diff <= 0
        THEN \* right-right case: one left rotation on self
             RotSingle(hp, hp[right].key, self.key, left, rl, rr, FALSE)
        ELSE \* right-left case
             IF hp[rl].leaf THEN NRes("panic", hp, self) ELSE
             Bind(TakeFull(hp, st, rl, "left"), LAMBDA t3 :
             IF t3.st # "ok" THEN NRes(t3.st, t3.heap, self) ELSE
             Bind(TakeFull(t3.heap, st, rl, "right"), LAMBDA t4 :
             IF t4.st # "ok" THEN NRes(t4.st, t4.heap, self) ELSE
                 RotDouble(t4.heap, t4.heap[rl].key, self.key, t4.heap[right].key,
                           left, t3.h, t4.h, rr)))))

\* InnerNode<Drafted>::make_balanced : self is a Drafted inner node value
make_balanced(hp0, st, self) ==
    Bind(extract_full_fetch(hp0, st, self.left), LAMBDA f1 :
    IF f1.st # "ok" THEN NRes(f1.st, f1.heap, self) ELSE
    Bind(extract_full_fetch(f1.heap, st, self.right), LAMBDA f2 :
    IF f2.st # "ok" THEN NRes(f2.st, f2.heap, self) ELSE
    LET hp == f2.heap
        left == f1.h
        right == f2.h
        diff == hp[left].height - hp[right].height
    IN  IF IsBalanced(diff)
        THEN NRes("ok", hp, [self EXCEPT !.left = Full(left), !.right = Full(right)])
        ELSE IF diff > 1 THEN BalanceLeft(hp, st, self, left, right)
        ELSE BalanceRight(hp, st, self, left, right)))

\* ------------------------------------------------------------ insertion
\* a split that always keeps the key of the leaf that was there
SplitKeyOfExisting(existing_key, new_key) == existing_key

\* key of the inner node that replaces a leaf on a split
SplitKey(existing_key, new_key) ==
    IF new_key < existing_key THEN existing_key ELSE new_key

\* a split that puts a copy of the leaf that was there under the new node
handle_leaf_insert_case_copying(hp, h, existing_key, new_key, new_value) ==
    LET new_leaf == DraftedLeaf(new_key, new_value)
    IN  IF new_key = existing_key
        THEN [st |-> "ok", heap |-> hp, node |-> new_leaf, updated |-> TRUE]
        ELSE LET hp1 == Append(Append(hp, new_leaf), hp[h])
                 nh == Len(hp) + 1
                 ch == Len(hp) + 2
                 l == IF new_key < existing_key THEN nh ELSE ch
                 r == IF new_key < existing_key THEN ch ELSE nh
             IN  [st |-> "ok", heap |-> hp1,
                  node |-> DraftedInner(SplitKey(existing_key, new_key), 1, 2,
                                        Full(l), Full(r)),
                  updated |-> FALSE]

\* handle_leaf_insert_case handing back the old leaf for a key that exists
handle_leaf_insert_case_keeping(hp, h, existing_key, new_key, new_value) ==
    LET new_leaf == DraftedLeaf(new_key, new_value)
    IN  IF new_key = existing_key
        THEN [st |-> "ok", heap |-> hp, node |-> hp[h], updated |-> TRUE]
        ELSE LET hp1 == Append(hp, new_leaf)
                 nh == Len(hp) + 1
                 l == IF new_key < existing_key THEN nh ELSE h
                 r == IF new_key < existing_key THEN h ELSE nh
             IN  [st |-> "ok", heap |-> hp1,
                  node |-> DraftedInner(SplitKey(existing_key, new_key), 1, 2,
                                        Full(l), Full(r)),
                  updated |-> FALSE]

\* handle_leaf_insert_case : [st, heap, node, updated]
handle_leaf_insert_case(hp, h, existing_key, new_key, new_value) ==
    LET new_leaf == DraftedLeaf(new_key, new_value)
    IN  IF new_key = existing_key
        THEN [st |-> "ok", heap |-> hp, node |-> new_leaf, updated |-> TRUE]
        ELSE LET hp1 == Append(hp, new_leaf)
                 nh == Len(hp) + 1
                 l == IF new_key < existing_key THEN nh ELSE h
                 r == IF new_key < existing_key THEN h ELSE nh
             IN  [st |-> "ok", heap |-> hp1,
                  node |-> DraftedInner(SplitKey(existing_key, new_key), 1, 2,
                                        Full(l), Full(r)),
                  updated |-> FALSE]

IRes(s, hp, n, u) == [st |-> s, heap |-> hp, node |-> n, updated |-> u]

\* the descent test of recursive_insert : key < gnode.key
InsertGoesLeft(k, node_k) == k < node_k

\* recursive_insert : [st, heap, node (Drafted value), updated]
RECURSIVE recursive_insert(_, _, _, _, _)
recursive_insert(hp0, st, h, k, v) ==
    IF hp0[h].leaf
    THEN handle_leaf_insert_case(hp0, h, hp0[h].key, k, v)
    ELSE
    Bind(TakeFetch(hp0, st, h, "left"), LAMBDA t1 :
    IF t1.st # "ok" THEN IRes(t1.st, t1.heap, hp0[h], FALSE) ELSE
    Bind(TakeFetch(t1.heap, st, h, "right"), LAMBDA t2 :
    IF t2.st # "ok" THEN IRes(t2.st, t2.heap, hp0[h], FALSE) ELSE
    Bind(recursive_insert(t2.heap, st,
                          IF InsertGoesLeft(k, hp0[h].key) THEN t1.h ELSE t2.h, k, v),
         LAMBDA r :
    IF r.st # "ok" THEN r ELSE
    Bind(Append(r.heap, r.node), LAMBDA hp :
    LET goLeft == InsertGoesLeft(k, hp0[h].key)
        left == IF goLeft THEN Len(hp) ELSE t1.h
        right == IF goLeft THEN t2.h ELSE Len(hp)
        ht == ParentHeight(hp[left].height, hp[right].height)
        sz == hp[left].size + hp[right].size
    IN  Bind(DraftedInner(hp0[h].key, ht, sz, Full(left), Full(right)), LAMBDA inner :
        IF ht > U7Max \/ sz > U63Max THEN IRes("panic", hp, inner, FALSE)
        ELSE IF r.updated THEN IRes("ok", hp, inner, TRUE)
        ELSE Bind(make_balanced(hp, st, inner), LAMBDA b :
                 IRes(b.st, b.heap, b.node, FALSE)))))))

\* -------------------------------------------------------------- removal
RRes(s, hp, h, rm) == [st |-> s, heap |-> hp, h |-> h, removed |-> rm]

\* a leaf test that never finds the key
RemoveNeverMatches(leaf_k, k) == FALSE

\* the leaf test of recursive_remove : gnode.key == key
RemoveMatches(leaf_k, k) == leaf_k = k

\* the descent test of recursive_remove : key < gnode.key
RemoveGoesLeft(k, node_k) == k < node_k

\* the node recursive_remove puts in place of one whose subtree lost a leaf:
\* the surviving sibling, or the node rebuilt over both children and rebalanced
remove_rebuild(hp, st, key, new_left, new_right) ==
    IF new_left = 0 /\ new_right = 0 THEN RRes("panic", hp, 0, TRUE)
    ELSE IF new_right = 0 THEN RRes("ok", hp, new_left, TRUE)
    ELSE IF new_left = 0 THEN RRes("ok", hp, new_right, TRUE)
    ELSE
    LET ht == ParentHeight(hp[new_left].height, hp[new_right].height)
        sz == hp[new_left].size + hp[new_right].size
    IN  IF ht > U7Max \/ sz > U63Max THEN RRes("panic", hp, 0, TRUE)
        ELSE Bind(DraftedInner(key, ht, sz, Full(new_left), Full(new_right)),
                  LAMBDA inner :
             Bind(make_balanced(hp, st, inner), LAMBDA b :
                 IF b.st # "ok" THEN RRes(b.st, b.heap, 0, TRUE)
                 ELSE RRes("ok", Append(b.heap, b.node), Len(b.heap) + 1, TRUE)))

\* recursive_remove : [st, heap, h (0 = None), removed]
RECURSIVE recursive_remove(_, _, _, _)
recursive_remove(hp0, st, h, k) ==
    IF hp0[h].leaf
    THEN IF RemoveMatches(hp0[h].key, k) THEN RRes("ok", hp0, 0, TRUE)
                                        ELSE RRes("ok", hp0, h, FALSE)
    ELSE
    Bind(TakeFetch(hp0, st, h, "left"), LAMBDA t1 :
    IF t1.st # "ok" THEN RRes(t1.st, t1.heap, 0, FALSE) ELSE
    Bind(TakeFetch(t1.heap, st, h, "right"), LAMBDA t2 :
    IF t2.st # "ok" THEN RRes(t2.st, t2.heap, 0, FALSE) ELSE
    Bind(recursive_remove(t2.heap, st,
                          IF RemoveGoesLeft(k, hp0[h].key) THEN t1.h ELSE t2.h, k),
         LAMBDA r :
    IF r.st # "ok" THEN r
    ELSE IF ~r.removed THEN RRes("ok", r.heap, h, FALSE)
    ELSE IF RemoveGoesLeft(k, hp0[h].key)
    THEN remove_rebuild(r.heap, st, hp0[h].key, r.h, t2.h)
    ELSE remove_rebuild(r.heap, st, hp0[h].key, t1.h, r.h))))

\* ----------------------------------------------------------------- save
SRes(s, hp, stor, nonce, n) ==
    [st |-> s, heap |-> hp, store |-> stor, nonce |-> nonce, node |-> n]

\* NodeDb::save_non_overwririting_one_node : [st, existed, store]
save_non_overwriting_one_node(stor, n) ==
    Bind(fetch_one_node(stor, node_key(n)), LAMBDA r :
        IF r.found
        THEN [st |-> IF r.f.ok THEN "ok" ELSE "err", existed |-> TRUE, store |-> stor]
        ELSE [st |-> "ok", existed |-> FALSE,
              store |-> save_overwriting_one_node(stor, n)])

\* InnerNode<Drafted>::to_hashed(version) then into_saved(nonce) : both
\* children must be Full handles of Saved (hashed) nodes
InnerCanBeSaved(hp, n) ==
    /\ n.left.full /\ n.right.full
    /\ hp[n.left.h].saved /\ hp[n.right.h].saved

SavedInner(hp, n, version, nonce) ==
    [n EXCEPT !.saved = TRUE, !.version = version, !.nonce = nonce,
              !.hash = InnerHash(n.height, n.size, version,
                                 hp[n.left.h].hash, hp[n.right.h].hash),
              !.cnk = <<node_key(hp[n.left.h]), node_key(hp[n.right.h])>>]

\* recursive_make_saved_nodes : [st, heap, store, nonce, node (Saved value)]
RECURSIVE recursive_make_saved_nodes(_, _, _, _, _)
\* save_arlock_node saving every Full child, a Saved one again
save_arlock_node_again(hp, stor, c, version, nonce) ==
    IF ~c.full
    THEN SRes("ok", hp, stor, nonce, hp[1])
    ELSE Bind(recursive_make_saved_nodes(hp, stor, AsDrafted(hp[c.h]), version, nonce),
              LAMBDA r :
             IF r.st # "ok" THEN r
             ELSE SRes("ok", [r.heap EXCEPT ![c.h] = r.node], r.store, r.nonce, r.node))

\* save_arlock_node (closure) : promotes the node behind a Full child in place
save_arlock_node(hp, stor, c, version, nonce) ==
    IF ~c.full \/ hp[c.h].saved
    THEN SRes("ok", hp, stor, nonce, hp[1])
    ELSE Bind(recursive_make_saved_nodes(hp, stor, AsDrafted(hp[c.h]), version, nonce),
              LAMBDA r :
             IF r.st # "ok" THEN r
             ELSE SRes("ok", [r.heap EXCEPT ![c.h] = r.node], r.store, r.nonce, r.node))

\* the tail of recursive_make_saved_nodes : hash, promote and write one node
\* whose children are done
save_one_node(hp, stor, drafted, version, this_nonce, nonce) ==
    IF ~drafted.leaf /\ ~InnerCanBeSaved(hp, drafted)
    THEN SRes("panic", hp, stor, nonce, drafted)
    ELSE Bind(IF drafted.leaf THEN SavedLeaf(drafted, version, this_nonce)
              ELSE SavedInner(hp, drafted, version, this_nonce), LAMBDA saved :
         Bind(save_non_overwriting_one_node(stor, saved), LAMBDA w :
             IF w.st # "ok" THEN SRes("err", hp, w.store, nonce, saved)
             ELSE IF w.existed THEN SRes("panic", hp, w.store, nonce, saved)
             ELSE SRes("ok", hp, w.store, nonce, saved)))

\* a nonce counter that steps by two
NextNonceByTwo(nonce) == nonce + 2

\* *nonce = nonce.get().checked_add(1) : the counter after its pre-increment
NextNonce(nonce) == nonce + 1

recursive_make_saved_nodes(hp0, stor0, drafted, version, nonce0) ==
    IF nonce0 >= U31Max THEN SRes("err", hp0, stor0, nonce0, drafted)
    ELSE IF drafted.leaf
    THEN save_one_node(hp0, stor0, drafted, version, NextNonce(nonce0), NextNonce(nonce0))
    ELSE
    Bind(save_arlock_node(hp0, stor0, drafted.left, version, NextNonce(nonce0)), LAMBDA s1 :
    IF s1.st # "ok" THEN s1 ELSE
    Bind(save_arlock_node(s1.heap, s1.store, drafted.right, version, s1.nonce),
         LAMBDA s2 :
    IF s2.st # "ok" THEN s2
    ELSE save_one_node(s2.heap, s2.store, drafted, version, NextNonce(nonce0), s2.nonce)))

\* ---------------------------------------------------------- node locks
\* What a call does to the RwLocks of the node handles, in program order:
\*   "r" h / "w" h : node.read() / node.write() on handle h
\*   "u" h         : the guard on h is dropped
\*   "x" h side    : child.extract() under the write guard of h
\*   "call" h      : the function calls itself on the node behind h
\*   "ret" h       : that call returns
\*   "panic"       : an unwrap or assert fails; the guards are dropped while
\*                   unwinding and the write-locked handles are poisoned
Ev(e, h) == <<[e |-> e, h |-> h, side |-> "left"]>>

\* node.read() for one expression : height_size_pair, left.read()?.height()
ReadOnce(h) == Ev("r", h) \o Ev("u", h)

\* Child::extract applied to a slot of the write-locked node h : full.read()
\* on a Full child, then the slot is replaced
extract_locks(hp, h, side) ==
    (IF ChildOf(hp, h, side).full THEN ReadOnce(ChildOf(hp, h, side).h) ELSE <<>>)
    \o <<[e |-> "x", h |-> h, side |-> side]>>

\* Child::extract applied to a slot of a node value that is behind no handle
\* (self in make_balanced)
self_extract_locks(c) == IF c.full THEN ReadOnce(c.h) ELSE <<>>

\* both children taken out of the write-locked node h of a rotation, then
\* height_size_pair of each
rotation_children_locks(hp0, st, h) ==
    LET t1 == TakeFull(hp0, st, h, "left")
        t2 == TakeFull(t1.heap, st, h, "right")
    IN  extract_locks(hp0, h, "left")
        \o (IF t1.st # "ok" THEN <<>>
            ELSE extract_locks(t1.heap, h, "right")
                 \o (IF t2.st # "ok" THEN <<>>
                     ELSE ReadOnce(t1.h) \o ReadOnce(t2.h)))

\* the rotation branches of make_balanced : heavy.write() held to the end,
\* and for a double rotation the write guard of its inner child as well
balance_locks(hp0, st, heavy, isLeft) ==
    LET t1 == TakeFull(hp0, st, heavy, "left")
        t2 == TakeFull(t1.heap, st, heavy, "right")
        d  == t2.heap[t1.h].height - t2.heap[t2.h].height
        g  == IF isLeft THEN t2.h ELSE t1.h
    IN  Ev("w", heavy)
        \o (IF hp0[heavy].leaf THEN <<>>
            ELSE rotation_children_locks(hp0, st, heavy)
                 \o (IF t1.st # "ok" \/ t2.st # "ok" THEN <<>>
                     ELSE IF (isLeft /\ d >= 0) \/ (~isLeft /\ d <= 0) THEN <<>>
                     ELSE Ev("w", g)
                          \o (IF t2.heap[g].leaf THEN <<>>
                              ELSE rotation_children_locks(t2.heap, st, g))
                          \o Ev("u", g)))
        \o Ev("u", heavy)

\* InnerNode<Drafted>::make_balanced on a node value with the children lc, rc
make_balanced_locks(hp0, st, lc, rc) ==
    Bind(extract_full_fetch(hp0, st, lc), LAMBDA f1 :
    self_extract_locks(lc)
    \o (IF f1.st # "ok" THEN <<>> ELSE
        Bind(extract_full_fetch(f1.heap, st, rc), LAMBDA f2 :
        self_extract_locks(rc)
        \o (IF f2.st # "ok" THEN <<>> ELSE
            ReadOnce(f1.h) \o ReadOnce(f2.h)
            \o Bind(f2.heap[f1.h].height - f2.heap[f2.h].height, LAMBDA diff :
                IF IsBalanced(diff) THEN <<>>
                ELSE IF diff > 1 THEN balance_locks(f2.heap, st, f1.h, TRUE)
                ELSE balance_locks(f2.heap, st, f2.h, FALSE))))))

\* the same block with its write guard kept alive after it
take_children_locks_held(hp0, st, h) ==
    Bind(TakeFetch(hp0, st, h, "left"), LAMBDA t1 :
    Ev("w", h)
    \o extract_locks(hp0, h, "left")
    \o (IF t1.st = "ok" THEN extract_locks(t1.heap, h, "right") ELSE <<>>))

\* the block of recursive_insert / recursive_remove that takes both children
\* out of the write-locked node h
take_children_locks(hp0, st, h) ==
    Bind(TakeFetch(hp0, st, h, "left"), LAMBDA t1 :
    Ev("w", h)
    \o extract_locks(hp0, h, "left")
    \o (IF t1.st = "ok" THEN extract_locks(t1.heap, h, "right") ELSE <<>>)
    \o Ev("u", h))

\* left.read()?.height() and right.read()?.height() in one expression, and
\* the same for the sizes
heights_and_sizes_locks(left, right) ==
    Ev("r", left) \o Ev("r", right) \o Ev("u", right) \o Ev("u", left)
    \o Ev("r", left) \o Ev("r", right) \o Ev("u", right) \o Ev("u", left)

\* recursive_insert
RECURSIVE recursive_insert_locks(_, _, _, _, _)
recursive_insert_locks(hp0, st, h, k, v) ==
    IF hp0[h].leaf THEN ReadOnce(h)
    ELSE
    Bind(TakeFetch(hp0, st, h, "left"), LAMBDA t1 :
    Bind(IF t1.st = "ok" THEN TakeFetch(t1.heap, st, h, "right") ELSE t1, LAMBDA t2 :
    ReadOnce(h)
    \o take_children_locks(hp0, st, h)
    \o (IF t2.st # "ok" THEN <<>> ELSE
        Ev("r", h)
        \o Bind(IF InsertGoesLeft(k, hp0[h].key) THEN t1.h ELSE t2.h, LAMBDA child :
            Ev("call", child)
            \o recursive_insert_locks(t2.heap, st, child, k, v)
            \o Ev("ret", child)
            \o Bind(recursive_insert(t2.heap, st, child, k, v), LAMBDA r :
                IF r.st # "ok" THEN <<>> ELSE
                Bind(Append(r.heap, r.node), LAMBDA hp :
                Bind(IF InsertGoesLeft(k, hp0[h].key) THEN Len(hp) ELSE t1.h, LAMBDA left :
                Bind(IF InsertGoesLeft(k, hp0[h].key) THEN t2.h ELSE Len(hp), LAMBDA right :
                    heights_and_sizes_locks(left, right)
                    \o (IF r.updated THEN <<>>
                        ELSE make_balanced_locks(hp, st, Full(left), Full(right))))))))
        \o Ev("u", h))))

\* recursive_remove
RECURSIVE recursive_remove_locks(_, _, _, _)
recursive_remove_locks(hp0, st, h, k) ==
    IF hp0[h].leaf THEN ReadOnce(h)
    ELSE
    Bind(TakeFetch(hp0, st, h, "left"), LAMBDA t1 :
    Bind(IF t1.st = "ok" THEN TakeFetch(t1.heap, st, h, "right") ELSE t1, LAMBDA t2 :
    ReadOnce(h)
    \o take_children_locks(hp0, st, h)
    \o (IF t2.st # "ok" THEN <<>> ELSE
        Ev("r", h)
        \o Bind(IF RemoveGoesLeft(k, hp0[h].key) THEN t1.h ELSE t2.h, LAMBDA child :
            Ev("call", child)
            \o recursive_remove_locks(t2.heap, st, child, k)
            \o Ev("ret", child)
            \o Bind(recursive_remove(t2.heap, st, child, k), LAMBDA r :
                IF r.st # "ok" \/ ~r.removed \/ r.h = 0 THEN <<>> ELSE
                Bind(IF RemoveGoesLeft(k, hp0[h].key) THEN r.h ELSE t1.h, LAMBDA left :
                Bind(IF RemoveGoesLeft(k, hp0[h].key) THEN t2.h ELSE r.h, LAMBDA right :
                    ReadOnce(left) \o ReadOnce(right)
                    \o make_balanced_locks(r.heap, st, Full(left), Full(right))))))
        \o Ev("u", h))))

\* to_hashed reads the hash of each child and into_saved its node key ; with
\* a Part child to_hashed fails before it reads
to_saved_locks(hp, n) ==
    IF ~InnerCanBeSaved(hp, n) THEN <<>>
    ELSE ReadOnce(n.left.h) \o ReadOnce(n.right.h)
         \o ReadOnce(n.left.h) \o ReadOnce(n.right.h)

\* recursive_make_saved_nodes : save_arlock_node holds node.write() of a Full
\* child while the child's subtree is saved
RECURSIVE recursive_make_saved_nodes_locks(_, _, _, _, _)
save_arlock_node_locks(hp, stor, c, version, nonce) ==
    IF ~c.full THEN <<>>
    ELSE Ev("w", c.h)
         \o (IF hp[c.h].saved THEN <<>>
             ELSE Ev("call", c.h)
                  \o recursive_make_saved_nodes_locks(hp, stor, AsDrafted(hp[c.h]),
                                                      version, nonce)
                  \o Ev("ret", c.h))
         \o Ev("u", c.h)

recursive_make_saved_nodes_locks(hp0, stor0, drafted, version, nonce0) ==
    IF nonce0 >= U31Max THEN <<>>
    ELSE IF drafted.leaf
    THEN IF save_one_node(hp0, stor0, drafted, version, NextNonce(nonce0),
                          NextNonce(nonce0)).st = "panic"
         THEN Ev("panic", 0) ELSE <<>>
    ELSE
    Bind(save_arlock_node(hp0, stor0, drafted.left, version, NextNonce(nonce0)), LAMBDA s1 :
    save_arlock_node_locks(hp0, stor0, drafted.left, version, NextNonce(nonce0))
    \o (IF s1.st # "ok" THEN <<>> ELSE
        Bind(save_arlock_node(s1.heap, s1.store, drafted.right, version, s1.nonce),
             LAMBDA s2 :
        save_arlock_node_locks(s1.heap, s1.store, drafted.right, version, s1.nonce)
        \o (IF s2.st # "ok" THEN <<>>
            ELSE to_saved_locks(s2.heap, drafted)
                 \o (IF save_one_node(s2.heap, s2.store, drafted, version,
                                      NextNonce(nonce0), s2.nonce).st = "panic"
                     THEN Ev("panic", 0) ELSE <<>>)))))

\* ---------------------------------------------------------------- state
VARIABLES
    heap,        \* handle -> node : the nodes behind the live Arc handles
    root,        \* MutableTree.root (0 = None)
    last_saved,  \* MutableTree.last_saved : [some, root, hash, version]
    version,     \* MutableTree.version
    size,        \* MutableTree.size
    store,       \* the key-value store : NodeKey -> wire record
    threads,     \* the writer thread, the reader threads and the node locks
    status,      \* "ok" | "erred" (a call returned Err) | "panicked"
    snap,        \* an ImmutableTree clone held by a reader : [some, root, hash, version]
    kv,          \* history: key -> value of its last insert, 0 once removed
    last,        \* history: the last call and what it returned
    nops         \* history: number of calls made so far

vars == <<heap, root, last_saved, version, size, store, bad, threads, status, snap, kv,
         last, nops>>

NoSnapshot == [some |-> FALSE, root |-> 0, hash |-> NoHash, version |-> 0]

\* a reader thread outside ImmutableTree::get
IdleReader == [st |-> "idle", key |-> 0, path |-> <<>>,
               res |-> [st |-> "ok", idx |-> 0, val |-> 0]]

\* no call is in progress and no node lock is held :
\*   held     : the guards alive, <<thread, handle, "r" | "w">>, thread 0 the writer
\*   poisoned : handles whose lock a panic left poisoned
\*   wq       : what the writer's call still does to the node locks
\*   wop      : the writer's call and what it returns
\*   rd       : the reader threads
\*   expect   : what get returns on the reader's clone, by key
NoThreads == [held |-> {}, poisoned |-> {}, wq |-> <<>>,
              wop |-> [op |-> "none", k |-> 0, o |-> 0],
              rd |-> [i \in 1..MaxReaders |-> IdleReader],
              expect |-> <<>>]

\* the handles reachable from h through Full children, in first-visit order
RECURSIVE Visit(_, _, _)
Visit(hp, h, seen) ==
    IF h = 0 \/ (\E i \in 1..Len(seen) : seen[i] = h) THEN seen
    ELSE Bind(IF hp[h].left.full THEN Visit(hp, hp[h].left.h, Append(seen, h))
              ELSE Append(seen, h), LAMBDA s2 :
             IF hp[h].right.full THEN Visit(hp, hp[h].right.h, s2) ELSE s2)

\* a handle, and a child slot, under the renumbering that lists the kept
\* handles in `order`
Renumbered(order, h) == IF h = 0 THEN 0 ELSE CHOOSE i \in 1..Len(order) : order[i] = h

RenumberedChild(order, c) == IF c.full THEN Full(Renumbered(order, c.h)) ELSE c

\* Dropping of unreferenced handles: the heap restricted to the handles
\* reachable from the tree's root, from its snapshot and from the reader's
\* clone, renumbered in visit order. [heap, root, ls, sn]
Collect(hp, r, ls, sn) ==
    Bind(Visit(hp, r, <<>>), LAMBDA from_root :
    Bind(Visit(hp, ls.root, from_root), LAMBDA from_ls :
    Bind(Visit(hp, sn.root, from_ls), LAMBDA order :
        [heap |-> [i \in 1..Len(order) |->
                     [hp[order[i]] EXCEPT !.left = RenumberedChild(order, @),
                                          !.right = RenumberedChild(order, @)]],
         root |-> Renumbered(order, r),
         ls |-> [ls EXCEPT !.root = Renumbered(order, @)],
         sn |-> [sn EXCEPT !.root = Renumbered(order, @)]])))

Last(op, ret) == [op |-> op, ret |-> ret]

\* MutableTree::new
Init ==
    /\ heap = <<>>
    /\ root = 0
    /\ last_saved = NoSnapshot
    /\ version = 0
    /\ size = 0
    /\ store = <<>>
    /\ bad = {}
    /\ threads = NoThreads
    /\ status = "ok"
    /\ snap = NoSnapshot
    /\ kv = [k \in Keys |-> 0]
    /\ last = Last("new", "ok")
    /\ nops = 0

\* ----------------------------------------------------- MutableTree calls
ORes(s, hp, r, sz, ret) == [st |-> s, heap |-> hp, root |-> r, size |-> sz, ret |-> ret]

\* a return value that reports every insert as an update
UpdatedAlways(updated) == TRUE

\* the `updated` flag handed back by insert
UpdatedFlag(updated) == updated

\* a counter that an insert of a new key leaves alone
SizeKeptOnInsert(sz) == sz

\* MutableTree::size after an insert that added a leaf
SizeAfterInsert(sz) == sz + 1

\* MutableTree::insert (self.root.take() leaves None behind on an Err)
insert(hp, stor, r, sz, k, v) ==
    IF r = 0
    THEN ORes("ok", Append(hp, DraftedLeaf(k, v)), Len(hp) + 1, 1, FALSE)
    ELSE Bind(recursive_insert(hp, stor, r, k, v), LAMBDA i :
         IF i.st # "ok" THEN ORes(i.st, i.heap, 0, sz, FALSE)
         ELSE Bind(Append(i.heap, i.node), LAMBDA hp1 :
              IF UpdatedFlag(i.updated) THEN ORes("ok", hp1, Len(hp1), sz, TRUE)
              ELSE IF SizeAfterInsert(sz) > U63Max
              THEN ORes("err", hp1, Len(hp1), sz, FALSE)
              ELSE ORes("ok", hp1, Len(hp1), SizeAfterInsert(sz), FALSE)))

\* MutableTree::remove
remove(hp, stor, r, sz, k) ==
    IF r = 0
    THEN ORes("ok", hp, 0, sz, FALSE)
    ELSE Bind(recursive_remove(hp, stor, r, k), LAMBDA d :
         IF d.st # "ok" THEN ORes(d.st, d.heap, 0, sz, FALSE)
         ELSE IF ~d.removed THEN ORes("ok", d.heap, d.h, sz, FALSE)
         ELSE IF sz < 1 THEN ORes("panic", d.heap, d.h, sz, TRUE)
         ELSE ORes("ok", d.heap, d.h, sz - 1, TRUE))

\* impl Get for MutableTree : [st, idx, val]
tree_get(hp, stor, r, k) ==
    IF r = 0 THEN [st |-> "ok", idx |-> 0, val |-> 0]
    ELSE get(hp, stor, r, k)

\* a snapshot built without reading the hash of its root
SnapshotUnhashed(hp, h, v) == [some |-> TRUE, root |-> h, hash |-> NoHash, version |-> v]

\* ImmutableTree::builder().root(h).version(v).build()
Snapshot(hp, h, v) == [some |-> TRUE, root |-> h, hash |-> hp[h].hash, version |-> v]

\* MutableTree::saved_hash
saved_hash(ls) == IF ls.some THEN ls.hash ELSE EMPTY_ROOT_HASH

\* what save leaves in the tree and hands back :
\* [st, heap, root, ls, version, store, ret]
SaveRes(s, hp, r, ls, v, stor, ret) ==
    [st |-> s, heap |-> hp, root |-> r, ls |-> ls, version |-> v, store |-> stor,
     ret |-> ret]

\* a working version that stays at the current one
WorkingVersionSame(ver) == ver

\* the version a save writes at : self.version() + 1
WorkingVersion(ver) == ver + 1

\* the Overflow return of save, with the root taken out of the tree first
OverflowAfterTake(hp, r, ls, ver, stor) == SaveRes("err", hp, 0, ls, ver, stor, 0)

\* the Overflow return of save: U63::new(version + 1) fails before the root
\* is taken
Overflow(hp, r, ls, ver, stor) == SaveRes("err", hp, r, ls, ver, stor, 0)

\* MutableTree::save ; an Err after self.root.take() leaves the tree without
\* its root
save(hp, stor, r, ls, ver) ==
    IF ver >= U63Max THEN Overflow(hp, r, ls, ver, stor) ELSE
    LET working_version == WorkingVersion(ver)
    IN  IF r = 0
        THEN IF <<working_version, NEW_ROOT_NONCE>> \in bad
             THEN SaveRes("err", hp, 0, ls, ver, stor, 0) ELSE
             SaveRes("ok", hp, 0,
                     IF ls.some THEN [ls EXCEPT !.version = working_version] ELSE ls,
                     working_version, save_overwriting_empty_root(stor, working_version),
                     working_version)
        ELSE IF hp[r].saved
        THEN IF <<working_version, NEW_ROOT_NONCE>> \in bad
             THEN SaveRes("err", hp, 0, ls, ver, stor, 0) ELSE
             SaveRes("ok", hp, r, Snapshot(hp, r, working_version), working_version,
                     save_overwriting_reference_root(stor, working_version,
                                                     node_key(hp[r])),
                     working_version)
        ELSE Bind(recursive_make_saved_nodes(hp, stor, AsDrafted(hp[r]),
                                             working_version, 0), LAMBDA m :
             IF m.st # "ok" THEN SaveRes(m.st, m.heap, 0, ls, ver, m.store, 0)
             ELSE Bind(Append(m.heap, m.node), LAMBDA hp1 :
                  SaveRes("ok", hp1, Len(hp1), Snapshot(hp1, Len(hp1), working_version),
                          working_version, m.store, working_version)))

\* -------------------------------------------------------------- actions
Panicked(op) ==
    /\ status' = "panicked"
    /\ last' = Last(op, "panic")
    /\ UNCHANGED <<heap, root, last_saved, version, size, store, bad, threads, snap, kv>>

RetStr(o) == IF o.st = "err" THEN "err" ELSE IF o.ret THEN "true" ELSE "false"

InsertStep(k, v) ==
    /\ status # "panicked"
    /\ nops' = nops + 1
    /\ \E o \in {insert(heap, store, root, size, k, v)} :
       \E c \in {Collect(o.heap, o.root, last_saved, snap)} :
           IF o.st = "panic" THEN Panicked("insert")
           ELSE /\ heap' = c.heap
                /\ root' = c.root
                /\ last_saved' = c.ls
                /\ snap' = c.sn
                /\ size' = o.size
                /\ status' = IF o.st = "err" THEN "erred" ELSE status
                /\ kv' = IF o.st = "ok" THEN [kv EXCEPT ![k] = v] ELSE kv
                /\ last' = Last("insert", RetStr(o))
                /\ UNCHANGED <<version, store, bad, threads>>

RemoveStep(k) ==
    /\ status # "panicked"
    /\ nops' = nops + 1
    /\ \E o \in {remove(heap, store, root, size, k)} :
       \E c \in {Collect(o.heap, o.root, last_saved, snap)} :
           IF o.st = "panic" THEN Panicked("remove")
           ELSE /\ heap' = c.heap
                /\ root' = c.root
                /\ last_saved' = c.ls
                /\ snap' = c.sn
                /\ size' = o.size
                /\ status' = IF o.st = "err" THEN "erred" ELSE status
                /\ kv' = IF o.st = "ok" THEN [kv EXCEPT ![k] = 0] ELSE kv
                /\ last' = Last("remove", RetStr(o))
                /\ UNCHANGED <<version, store, bad, threads>>

\* a call of save ; a panic inside it keeps the records written before it
SaveCall ==
    /\ status # "panicked"
    /\ nops' = nops + 1
    /\ \E o \in {save(heap, store, root, last_saved, version)} :
       \E c \in {Collect(o.heap, o.root, o.ls, snap)} :
           IF o.st = "panic"
           THEN /\ status' = "panicked"
                /\ last' = Last("save", "panic")
                /\ store' = o.store
                /\ UNCHANGED <<heap, root, last_saved, version, size, bad, threads, snap, kv>>
           ELSE /\ heap' = c.heap
                /\ root' = c.root
                /\ last_saved' = c.ls
                /\ snap' = c.sn
                /\ version' = o.version
                /\ store' = o.store
                /\ status' = IF o.st = "err" THEN "erred" ELSE status
                /\ last' = Last("save", o.st)
                /\ UNCHANGED <<size, bad, threads, kv>>

SaveStep == version < MaxVersion /\ SaveCall

\* one writer calling insert, remove and save in any order
Insert(k, v) == nops < MaxOps /\ InsertStep(k, v)

Remove(k) == nops < MaxOps /\ RemoveStep(k)

Save == nops < MaxOps /\ SaveStep

Next ==
    \/ \E k \in Keys, v \in Vals : Insert(k, v)
    \/ \E k \in Keys : Remove(k)
    \/ Save

Spec == Init /\ [][Next]_vars

\* the same writer over a wider key range with one value per key, for the
\* rotations that need five leaves
InitBal ==
    /\ heap = <<>>
    /\ root = 0
    /\ last_saved = NoSnapshot
    /\ version = 0
    /\ size = 0
    /\ store = <<>>
    /\ bad = {}
    /\ threads = NoThreads
    /\ status = "ok"
    /\ snap = NoSnapshot
    /\ kv = [k \in KeysBal |-> 0]
    /\ last = Last("new", "ok")
    /\ nops = 0

BalInsert(k) == nops < MaxOpsBal /\ InsertStep(k, MaxVal)

BalRemove(k) == nops < MaxOpsBal /\ RemoveStep(k)

BalSave == nops < MaxOpsBal /\ SaveStep

NextBal ==
    \/ \E k \in KeysBal : BalInsert(k)
    \/ \E k \in KeysBal : BalRemove(k)
    \/ BalSave

SpecBal == InitBal /\ [][NextBal]_vars

\* --------------------------------------------------- load_latest_version
\* NodeDb::fetch_latest_root_node : the last key of the store gives the
\* latest version, the first key of that version is the root's
\* [found, nk, f]
fetch_latest_root_node(stor) ==
    IF DOMAIN stor = {}
    THEN [found |-> FALSE, nk |-> NoNk, f |-> make_fetched_node(<<EMPTY_ROOT_MARKER>>)]
    ELSE LET latest == CHOOSE v \in {nk[1] : nk \in DOMAIN stor} :
                           \A nk \in DOMAIN stor : nk[1] <= v
             first == CHOOSE n \in {nk[2] : nk \in {x \in DOMAIN stor : x[1] = latest}} :
                          \A nk \in DOMAIN stor : nk[1] = latest => n <= nk[2]
         IN  [found |-> TRUE, nk |-> <<latest, first>>,
              f |-> IF <<latest, first>> \in bad THEN FetchErr
                    ELSE make_fetched_node(stor[<<latest, first>>])]

\* ImmutableTree::size : the size of the root node
snapshot_size(hp, sn) == hp[sn.root].size

\* what load_latest_version returns : [st, heap, root, ls, version, size],
\* the heap holding the handles the call made
LRes(s, hp, r, ls, v, sz) ==
    [st |-> s, heap |-> hp, root |-> r, ls |-> ls, version |-> v, size |-> sz]

\* Self::with_ndb(ndb) : the empty tree at version 0
with_ndb == LRes("ok", <<>>, 0, NoSnapshot, 0, 0)

\* the tail of load_latest_version : the tree over a Saved root
loaded_tree(saved_root, v) ==
    Bind(Snapshot(<<saved_root>>, 1, v), LAMBDA ls :
        LRes("ok", <<saved_root>>, 1, ls, v, snapshot_size(<<saved_root>>, ls)))

\* MutableTree::load_latest_version
load_latest_version(stor) ==
    Bind(fetch_latest_root_node(stor), LAMBDA l :
        IF ~l.found THEN with_ndb
        ELSE IF l.f.t = "EmptyRoot" THEN with_ndb
        ELSE IF l.f.t = "Deserialized"
        THEN IF ~l.f.ok THEN LRes("err", <<>>, 0, NoSnapshot, 0, 0)
             ELSE loaded_tree(into_saved_checked(l.f, l.nk), l.nk[1])
        ELSE Bind(fetch_one_node(stor, l.f.nk), LAMBDA r :
                 IF ~r.found THEN with_ndb
                 ELSE IF r.f.t # "Deserialized" \/ ~r.f.ok
                 THEN LRes("err", <<>>, 0, NoSnapshot, 0, 0)
                 ELSE loaded_tree(into_saved_checked(r.f, l.f.nk), l.nk[1])))

\* the owner drops its MutableTree and opens the same store again with
\* load_latest_version; the history restarts from the keys the loaded tree
\* holds. An Err leaves the owner with the tree it had.
LoadStep ==
    /\ status # "panicked"
    /\ nops' = nops + 1
    /\ \E o \in {load_latest_version(store)} :
       \E c \in {Collect(heap \o o.heap,
                          IF o.root = 0 THEN 0 ELSE Len(heap) + o.root,
                          IF o.ls.some THEN [o.ls EXCEPT !.root = Len(heap) + @] ELSE o.ls,
                          snap)} :
           IF o.st # "ok"
           THEN /\ status' = "erred"
                /\ last' = Last("load", "err")
                /\ UNCHANGED <<heap, root, last_saved, version, size, store, bad, threads, snap, kv>>
           ELSE /\ heap' = c.heap
                /\ root' = c.root
                /\ last_saved' = c.ls
                /\ version' = o.version
                /\ size' = o.size
                /\ status' = "ok"
                /\ kv' = [k \in DOMAIN kv |-> tree_get(c.heap, store, c.root, k).val]
                /\ last' = Last("load", "ok")
                /\ snap' = c.sn
                /\ UNCHANGED <<store, bad, threads>>

Load == nops < MaxOps /\ LoadStep

NextLoad ==
    \/ \E k \in Keys, v \in Vals : Insert(k, v)
    \/ \E k \in Keys : Remove(k)
    \/ Save
    \/ Load

\* the writer of Spec, which may also drop its tree and load it again
SpecLoad == Init /\ [][NextLoad]_vars

\* a reader clones the tree's last_saved() snapshot (ImmutableTree: Clone);
\* the clone shares the root handle and copies hash and version
CloneSnapshot ==
    /\ status # "panicked"
    /\ last_saved.some
    /\ snap # last_saved
    /\ snap' = last_saved
    /\ UNCHANGED <<heap, root, last_saved, version, size, store, bad, threads, status, kv, last, nops>>

NextSnap ==
    \/ \E k \in Keys, v \in Vals : Insert(k, v)
    \/ \E k \in Keys : Remove(k)
    \/ Save
    \/ CloneSnapshot

\* the writer of Spec next to a reader that keeps a clone of a snapshot
SpecSnap == Init /\ [][NextSnap]_vars

\* ------------------------------------------------- the node db alone
\* the node keys and the Saved nodes the node db is called with
DbKeys == (1..MaxVersionDb) \X (1..MaxNonceDb)

DbLeaves == {SavedLeaf(DraftedLeaf(k, v), nk[1], nk[2]) :
                 k \in {MaxKey}, v \in Vals, nk \in DbKeys}

DbInners ==
    {[DraftedInner(MaxKey, ht, 2, Part(c[1]), Part(c[2]))
         EXCEPT !.saved = TRUE, !.version = nk[1], !.nonce = nk[2],
                !.hash = <<ht>>, !.cnk = c] :
        ht \in 1..U7Max, nk \in DbKeys, c \in {<<<<1, 2>>, <<2, 1>>>>, <<<<3, 4>>, <<1, 1>>>>}}

DbCalled(op, arg) ==
    /\ nops < MaxOpsDb
    /\ nops' = nops + 1
    /\ last' = [op |-> op, ret |-> arg]
    /\ UNCHANGED <<heap, root, last_saved, version, size, bad, threads, status, snap, kv>>

DbSaveOneNode(n) ==
    /\ DbCalled("save_overwriting_one_node", n)
    /\ store' = save_overwriting_one_node(store, n)

DbSaveEmptyRoot(v) ==
    /\ DbCalled("save_overwriting_empty_root", v)
    /\ store' = save_overwriting_empty_root(store, v)

DbSaveReferenceRoot(v, nk) ==
    /\ DbCalled("save_overwriting_reference_root", <<v, nk>>)
    /\ store' = save_overwriting_reference_root(store, v, nk)

NextDb ==
    \/ \E n \in DbLeaves \cup DbInners : DbSaveOneNode(n)
    \/ \E v \in 1..MaxVersionDb : DbSaveEmptyRoot(v)
    \/ \E v \in 1..MaxVersionDb, nk \in DbKeys : DbSaveReferenceRoot(v, nk)

\* the save_overwriting_* calls of a NodeDb over an empty store
SpecDb == Init /\ [][NextDb]_vars

\* ------------------------------------------------ long histories
ReloadInsert(k) == nops < MaxOpsReload /\ InsertStep(k, MaxVal)

ReloadRemove(k) == nops < MaxOpsReload /\ RemoveStep(k)

ReloadSave == nops < MaxOpsReload /\ version < MaxVersionReload /\ SaveCall

ReloadLoad == nops < MaxOpsReload /\ LoadStep

NextReload ==
    \/ \E k \in KeysReload : ReloadInsert(k)
    \/ \E k \in KeysReload : ReloadRemove(k)
    \/ ReloadSave
    \/ ReloadLoad

\* the writer of SpecLoad over few keys, through more calls and versions
SpecReload == Init /\ [][NextReload]_vars

\* ------------------------------------------------- insertion orders
\* a fresh tree filled with keys in ascending order and then saved
AscInsert(k, v) ==
    /\ size < MaxLeavesOrder
    /\ \A x \in DOMAIN kv : kv[x] # 0 => x < k
    /\ InsertStep(k, v)

AscSave == size = MaxLeavesOrder /\ SaveStep

NextOrder ==
    \/ \E k \in KeysBal, v \in Vals : AscInsert(k, v)
    \/ AscSave

SpecOrder == InitBal /\ [][NextOrder]_vars

\* the same keys and values inserted into a fresh tree in descending order
RECURSIVE insert_descending(_, _, _)
insert_descending(o, ks, vals) ==
    IF ks = {} THEN o
    ELSE LET k == CHOOSE x \in ks : \A y \in ks : y <= x
         IN  insert_descending(insert(o.heap, <<>>, o.root, o.size, k, vals[k]),
                               ks \ {k}, vals)

\* ... and then saved : the result of save
saved_descending(ks, vals) ==
    Bind(insert_descending(ORes("ok", <<>>, 0, 0, FALSE), ks, vals), LAMBDA o :
         save(o.heap, <<>>, o.root, NoSnapshot, 0))

\* ------------------------------------------------- the last versions
\* a tree loaded from a store whose latest root record is a leaf saved at one
\* of the last two versions of U63
InitLimit ==
    \E k \in Keys, v \in Vals, ver \in {U63Max - 1, U63Max} :
        /\ bad = {}
        /\ threads = NoThreads
        /\ store = save_overwriting_one_node(
                       <<>>, SavedLeaf(DraftedLeaf(k, v), ver, NEW_ROOT_NONCE))
        /\ \E o \in {load_latest_version(store)} :
               /\ heap = o.heap
               /\ root = o.root
               /\ last_saved = o.ls
               /\ version = o.version
               /\ size = o.size
        /\ status = "ok"
        /\ snap = NoSnapshot
        /\ kv = [x \in Keys |-> IF x = k THEN v ELSE 0]
        /\ last = Last("load", "ok")
        /\ nops = 0

LimitInsert(k, v) == nops < MaxOpsLimit /\ InsertStep(k, v)

LimitRemove(k) == nops < MaxOpsLimit /\ RemoveStep(k)

LimitSave == nops < MaxOpsLimit /\ SaveCall

NextLimit ==
    \/ \E k \in Keys, v \in Vals : LimitInsert(k, v)
    \/ \E k \in Keys : LimitRemove(k)
    \/ LimitSave

\* the writer of Spec on a tree whose version is at the end of U63
SpecLimit == InitLimit /\ [][NextLimit]_vars

\* ------------------------------------------------------- a failing store
\* the node keys at which the key-value store may start to fail
FaultKeys == (1..MaxVersion) \X (1..MaxNonceFault)

\* the store starts to return Err for the calls on one node key
StoreBreaks(nk) ==
    /\ status = "ok"
    /\ bad = {}
    /\ bad' = {nk}
    /\ UNCHANGED <<heap, root, last_saved, version, size, store, threads, status, snap, kv, last, nops>>

\* the store works again
StoreRecovers ==
    /\ bad # {}
    /\ last.op = "save"
    /\ bad' = {}
    /\ UNCHANGED <<heap, root, last_saved, version, size, store, threads, status, snap, kv, last, nops>>

FaultInsert(k) == nops < MaxOpsFault /\ InsertStep(k, MaxVal)

FaultRemove(k) == nops < MaxOpsFault /\ RemoveStep(k)

FaultSave == nops < MaxOpsFault /\ SaveStep

NextFault ==
    \/ \E k \in KeysFault : FaultInsert(k)
    \/ \E k \in KeysFault : FaultRemove(k)
    \/ FaultSave
    \/ \E nk \in FaultKeys : StoreBreaks(nk)
    \/ StoreRecovers

\* the writer of Spec over a store whose calls on one node key return Err
\* for a while
SpecFault == Init /\ [][NextFault]_vars

\* ------------------------------------------- one writer and its readers
\* The writer thread owns the MutableTree ; every reader thread owns a clone
\* of the ImmutableTree of one saved version and calls get on it. A call of
\* the writer is cut at the node locks it takes and drops ; a reader's get is
\* cut at every node.read() of its descent.
\* MutableTree::insert, remove and save. The root guard of save is held
\* through the match on the root ; after the match on a Saved root the
\* ImmutableTree of the new version reads the hash of the root. The root a
\* Drafted tree is saved into is behind a handle of its own.
insert_locks(hp, stor, r, k, v) ==
    IF r = 0 THEN <<>> ELSE recursive_insert_locks(hp, stor, r, k, v)

remove_locks(hp, stor, r, k) ==
    IF r = 0 THEN <<>> ELSE recursive_remove_locks(hp, stor, r, k)

save_locks(hp, stor, r, ver) ==
    IF ver >= U63Max \/ r = 0 THEN <<>>
    ELSE IF hp[r].saved
    THEN ReadOnce(r)
         \o (IF <<WorkingVersion(ver), NEW_ROOT_NONCE>> \in bad THEN <<>> ELSE ReadOnce(r))
    ELSE Ev("r", r)
         \o recursive_make_saved_nodes_locks(hp, stor, AsDrafted(hp[r]),
                                             WorkingVersion(ver), 0)
         \o Ev("u", r)

\* a tree with the keys 1..n inserted from the greatest down and saved, and
\* the clone of its saved version handed to the readers
InitLock ==
    /\ bad = {}
    /\ \E n \in 1..MaxKeyLock :
       \E o \in {saved_descending(1..n, [k \in 1..n |-> MaxVal])} :
       \E c \in {Collect(o.heap, o.root, o.ls, o.ls)} :
        /\ heap = c.heap
        /\ root = c.root
        /\ last_saved = c.ls
        /\ version = o.version
        /\ size = n
        /\ store = o.store
        /\ threads = [NoThreads EXCEPT
                         !.expect = [k \in KeysLock |-> get(c.heap, o.store, c.sn.root, k)]]
        /\ status = "ok"
        /\ snap = c.sn
        /\ kv = [k \in KeysLock |-> IF k <= n THEN MaxVal ELSE 0]
        /\ last = Last("save", "ok")
        /\ nops = 0

\* the guards on handle h
HeldOn(h) == {g \in threads.held : g[2] = h}

WriterHolds(h, mode) == <<0, h, mode>> \in threads.held

\* RwLock::write by the writer : no other guard of the lock is alive
CanWrite(h) == HeldOn(h) = {}

\* the writer is parked in node.write() on h
WriterWaits(h) ==
    /\ threads.wq # <<>>
    /\ Head(threads.wq).e = "w"
    /\ Head(threads.wq).h = h
    /\ HeldOn(h) # {}

\* RwLock::read : no write guard is alive
CanRead(h) == ~WriterHolds(h, "w")

\* RwLock::read of a lock that lets no reader pass a parked writer ; the
\* priority policy of the lock is left to the platform
CanReadBehindWriters(h) == CanRead(h) /\ ~WriterWaits(h)

\* the step the writer's call is at can be taken
WriterCanStep ==
    /\ threads.wq # <<>>
    /\ Head(threads.wq).e = "w" => CanWrite(Head(threads.wq).h)
    /\ Head(threads.wq).e = "r" => ~WriterHolds(Head(threads.wq).h, "w")

\* the writer enters insert, remove or save
WriterBegins(op, k) ==
    /\ status = "ok"
    /\ nops < MaxOpsLock
    /\ threads.wop.op = "none"
    /\ nops' = nops + 1
    /\ threads' = [threads EXCEPT
          !.wq = IF op = "insert" THEN insert_locks(heap, store, root, k, MaxVal)
                 ELSE IF op = "remove" THEN remove_locks(heap, store, root, k)
                 ELSE save_locks(heap, store, root, version),
          !.wop = [op |-> op, k |-> k,
                   o |-> IF op = "insert" THEN insert(heap, store, root, size, k, MaxVal)
                         ELSE IF op = "remove" THEN remove(heap, store, root, size, k)
                         ELSE save(heap, store, root, last_saved, version)]]
    /\ UNCHANGED <<heap, root, last_saved, version, size, store, bad, status, snap, kv, last>>

\* the writer takes or drops a node lock, or replaces a child slot under its
\* write guard
WriterStep ==
    /\ WriterCanStep
    /\ \E e \in {Head(threads.wq)} :
        /\ threads' = [threads EXCEPT
              !.wq = Tail(@),
              !.held = IF e.e \in {"r", "w"} THEN @ \cup {<<0, e.h, e.e>>}
                       ELSE IF e.e = "u" THEN @ \ {<<0, e.h, "r">>, <<0, e.h, "w">>}
                       ELSE @,
              !.poisoned = IF e.e = "panic"
                           THEN @ \cup {g[2] : g \in {x \in threads.held : x[1] = 0 /\ x[3] = "w"}}
                           ELSE @]
        /\ heap' = IF e.e = "x" /\ e.h <= Len(heap) THEN extract(heap, e.h, e.side)
                   ELSE heap
    /\ UNCHANGED <<root, last_saved, version, size, store, bad, status, snap, kv, last, nops>>

SomeReaderRuns == \E i \in 1..MaxReaders : threads.rd[i].st = "run"

\* the handles dropped at the end of a call, once no reader is inside get
Dropped(hp, r, ls, sn) ==
    IF SomeReaderRuns THEN [heap |-> hp, root |-> r, ls |-> ls, sn |-> sn]
    ELSE Collect(hp, r, ls, sn)

\* the writer's call returns
WriterEnds ==
    /\ threads.wop.op # "none"
    /\ threads.wq = <<>>
    /\ threads' = [threads EXCEPT !.wop = NoThreads.wop]
    /\ \E o \in {threads.wop.o}, op \in {threads.wop.op}, k \in {threads.wop.k} :
        IF o.st = "panic"
        THEN /\ status' = "panicked"
             /\ last' = Last(op, "panic")
             /\ store' = IF op = "save" THEN o.store ELSE store
             /\ UNCHANGED <<heap, root, last_saved, version, size, snap, kv>>
        ELSE IF op = "save"
        THEN \E c \in {Dropped(o.heap, o.root, o.ls, snap)} :
             /\ heap' = c.heap
             /\ root' = c.root
             /\ last_saved' = c.ls
             /\ snap' = c.sn
             /\ version' = o.version
             /\ store' = o.store
             /\ status' = IF o.st = "err" THEN "erred" ELSE status
             /\ last' = Last("save", o.st)
             /\ UNCHANGED <<size, kv>>
        ELSE \E c \in {Dropped(o.heap, o.root, last_saved, snap)} :
             /\ heap' = c.heap
             /\ root' = c.root
             /\ last_saved' = c.ls
             /\ snap' = c.sn
             /\ size' = o.size
             /\ status' = IF o.st = "err" THEN "erred" ELSE status
             /\ kv' = IF o.st = "ok"
                      THEN [kv EXCEPT ![k] = IF op = "insert" THEN MaxVal ELSE 0]
                      ELSE kv
             /\ last' = Last(op, RetStr(o))
             /\ UNCHANGED <<version, store>>
    /\ UNCHANGED <<bad, nops>>

\* one node of a reader's descent : the handle, and for a step to the right
\* the sizes the index is lifted by
PathNode(h, right, n_size, right_size) ==
    [h |-> h, right |-> right, n |-> n_size, rs |-> right_size]

\* the result of the descent below path[i], handed up through the callers
RECURSIVE Returned(_, _, _)
Returned(path, i, r) ==
    IF i = 0 THEN r
    ELSE Returned(path, i - 1,
                  IF path[i].right
                  THEN get_right([size |-> path[i].n], path[i].rs, r)
                  ELSE r)

\* get returns in reader i : its guards are dropped
Finished(i, r) ==
    [threads EXCEPT
        !.rd[i] = [st |-> "done", key |-> @.key, path |-> <<>>, res |-> r],
        !.held = {g \in @ : g[1] # i}]

\* node.read() on a poisoned lock
PoisonError == [st |-> "err", idx |-> 0, val |-> 0]

\* reader i calls ImmutableTree::get : self.root().read() ; the readers are
\* alike, so they are numbered in the order of their calls
ReaderBegins(i, k) ==
    /\ threads.rd[i].st = "idle"
    /\ \A j \in 1..(i - 1) : threads.rd[j].st # "idle"
    /\ snap.some
    /\ nops < MaxOpsLock
    /\ nops' = nops + 1
    /\ CanRead(snap.root)
    /\ threads' =
           IF snap.root \in threads.poisoned THEN Finished(i, PoisonError)
           ELSE [threads EXCEPT
                    !.rd[i] = [st |-> "run", key |-> k,
                               path |-> <<PathNode(snap.root, FALSE, 0, 0)>>,
                               res |-> @.res],
                    !.held = @ \cup {<<i, snap.root, "r">>}]
    /\ UNCHANGED <<heap, root, last_saved, version, size, store, bad, status, snap, kv,
                   last>>

\* the child slot Node::get follows from node n
SideOf(n, k) == IF GetGoesLeft(k, n.key) THEN "left" ELSE "right"

\* the node reader i is at, and the slot it follows
ReaderAt(i) == heap[threads.rd[i].path[Len(threads.rd[i].path)].h]

ReaderSlot(i) ==
    IF SideOf(ReaderAt(i), threads.rd[i].key) = "left" THEN ReaderAt(i).left
    ELSE ReaderAt(i).right

\* the next step of reader i can be taken
ReaderCanStep(i) ==
    /\ threads.rd[i].st = "run"
    /\ (~ReaderAt(i).leaf /\ ReaderSlot(i).full) => CanRead(ReaderSlot(i).h)

\* ... even where the lock prefers writers
ReaderCanStepBehindWriters(i) ==
    /\ threads.rd[i].st = "run"
    /\ (~ReaderAt(i).leaf /\ ReaderSlot(i).full) => CanReadBehindWriters(ReaderSlot(i).h)

\* Node::get in reader i : at a leaf it returns ; through a Full slot it
\* takes the child's read guard and goes on under it ; through a Part slot it
\* fetches the child into a handle of its own and finishes there
ReaderStep(i) ==
    /\ ReaderCanStep(i)
    /\ \E me \in {threads.rd[i]}, n \in {ReaderAt(i)}, c \in {ReaderSlot(i)} :
        threads' =
           IF n.leaf
           THEN Finished(i, Returned(me.path, Len(me.path),
                    [st |-> "ok", idx |-> 0,
                     val |-> IF me.key = n.key THEN n.value ELSE 0]))
           ELSE IF ~c.full
           THEN Finished(i, Returned(me.path, Len(me.path),
                    get(heap, store, me.path[Len(me.path)].h, me.key)))
           ELSE IF c.h \in threads.poisoned
           THEN Finished(i, PoisonError)
           ELSE [threads EXCEPT
                    !.rd[i].path =
                        Append(@, PathNode(c.h, SideOf(n, me.key) = "right",
                                           n.size, heap[c.h].size)),
                    !.held = @ \cup {<<i, c.h, "r">>}]
    /\ UNCHANGED <<heap, root, last_saved, version, size, store, bad, status, snap, kv,
                   last, nops>>

NextLock ==
    \/ \E k \in KeysLock : WriterBegins("insert", k)
    \/ \E k \in KeysLock : WriterBegins("remove", k)
    \/ WriterBegins("save", 0)
    \/ WriterStep
    \/ WriterEnds
    \/ \E i \in 1..MaxReaders, k \in KeysLock : ReaderBegins(i, k)
    \/ \E i \in 1..MaxReaders : ReaderStep(i)

SpecLock == InitLock /\ [][NextLock]_vars

\* --------------------------------------------------- make_balanced alone
\* the node behind a child slot of a heap : the live node of a Full child, the
\* node the store gives back for a Part child (a leaf with key 0 if it cannot
\* be loaded)
NodeBehind(hp, st, c) ==
    Bind(fetch_full(hp, st, c), LAMBDA f :
        IF f.st = "ok" THEN f.heap[f.h] ELSE DraftedLeaf(0, 0))

\* the keys of the leaves below a node of a heap, left to right
RECURSIVE LeavesOf(_, _, _)
LeavesOf(hp, st, n) ==
    IF n.leaf THEN <<n.key>>
    ELSE LeavesOf(hp, st, NodeBehind(hp, st, n.left))
         \o LeavesOf(hp, st, NodeBehind(hp, st, n.right))

\* the inner nodes at or below a node of a heap
RECURSIVE InnersOf(_, _, _)
InnersOf(hp, st, n) ==
    IF n.leaf THEN {}
    ELSE {n} \cup InnersOf(hp, st, NodeBehind(hp, st, n.left))
             \cup InnersOf(hp, st, NodeBehind(hp, st, n.right))

\* two subtrees that make_balanced can be called over : every key of the one
\* behind a is below every key of the one behind b, and their heights differ
\* by at most two
Joinable(a, b) ==
    /\ a # b
    /\ heap[a].height - heap[b].height \in -2..2
    /\ \E la \in {LeavesOf(heap, store, heap[a])}, lb \in {LeavesOf(heap, store, heap[b])} :
           la[Len(la)] < lb[1]

\* the Drafted inner node over the subtrees behind a and b : InnerNode::builder
\* with the key, height and size of such a node
JoinedNode(hp, st, a, b) ==
    DraftedInner(LeavesOf(hp, st, hp[b])[1],
                 ParentHeight(hp[a].height, hp[b].height),
                 hp[a].size + hp[b].size, Full(a), Full(b))

\* a call of make_balanced on a Drafted inner node over two subtrees of the
\* heap ; the caller drops the node it gets back
MakeBalancedStep(a, b) ==
    /\ status = "ok"
    /\ nops < MaxOpsRot
    /\ Joinable(a, b)
    /\ nops' = nops + 1
    /\ \E o \in {make_balanced(heap, store, JoinedNode(heap, store, a, b))} :
       \E c \in {Collect(o.heap, root, last_saved, snap)} :
           /\ heap' = c.heap
           /\ root' = c.root
           /\ last_saved' = c.ls
           /\ snap' = c.sn
           /\ status' = IF o.st = "ok" THEN status
                        ELSE IF o.st = "panic" THEN "panicked" ELSE "erred"
           /\ last' = Last("make_balanced",
                           [left |-> a, right |-> b, st |-> o.st,
                            diff |-> heap[a].height - heap[b].height,
                            made |-> Len(o.heap) - Len(heap)])
    /\ UNCHANGED <<version, size, store, bad, threads, kv>>

RotInsert(k) == nops < MaxOpsRot /\ InsertStep(k, MaxVal)

RotRemove(k) == nops < MaxOpsRot /\ RemoveStep(k)

RotSave == nops < MaxOpsRot /\ SaveStep

NextRot ==
    \/ \E k \in KeysBal : RotInsert(k)
    \/ \E k \in KeysBal : RotRemove(k)
    \/ RotSave
    \/ \E a \in 1..Len(heap), b \in 1..Len(heap) : MakeBalancedStep(a, b)

SpecRot == InitBal /\ [][NextRot]_vars

\* --------------------------------------- a store with another owner
\* A tree of the keys 1..n saved in several versions and loaded again: the
\* key k0 alone is saved first (once, or twice with an update between), so
\* that its leaf has the node key of a root, (1, 1) or (2, 1); the other keys
\* follow in descending order and are saved in one more version.
saved_in_versions(n, k0, vs) ==
    Bind(saved_descending({k0}, [k \in KeysChild |-> IF vs = 1 THEN MaxVal ELSE 1]),
         LAMBDA s1 :
    Bind(IF vs = 1 THEN s1
         ELSE Bind(insert(s1.heap, s1.store, s1.root, 1, k0, MaxVal), LAMBDA u :
                   save(u.heap, s1.store, u.root, s1.ls, s1.version)),
         LAMBDA s2 :
    Bind(insert_descending(ORes("ok", s2.heap, s2.root, 1, FALSE), (1..n) \ {k0},
                           [k \in KeysChild |-> MaxVal]),
         LAMBDA o :
         save(o.heap, s2.store, o.root, s2.ls, s2.version))))

InitChild ==
    /\ bad = {}
    /\ \E n \in 2..MaxKeyChild, k0 \in 1..MaxKeyChild, vs \in 1..2 :
       /\ k0 <= n
       /\ \E s \in {saved_in_versions(n, k0, vs)} :
          \E o \in {load_latest_version(s.store)} :
            /\ heap = o.heap
            /\ root = o.root
            /\ last_saved = o.ls
            /\ version = o.version
            /\ size = o.size
            /\ store = s.store
            /\ threads = NoThreads
            /\ status = "ok"
            /\ snap = NoSnapshot
            /\ kv = [k \in KeysChild |-> IF k <= n THEN MaxVal ELSE 0]
            /\ last = Last("load", "ok")
            /\ nops = 0

\* every record of the store is a node record, and the children an inner
\* record names have records: the store as the saves of one tree leave it
StoreIsWhole(st) ==
    \A nk \in DOMAIN st :
        \E f \in {make_fetched_node(st[nk])} :
            /\ f.t = "Deserialized"
            /\ f.node.leaf \/ (f.node.left.nk \in DOMAIN st /\ f.node.right.nk \in DOMAIN st)

\* another MutableTree on the same store, still empty, saves its version w:
\* save_overwriting_empty_root at (w, 1)
OtherOwnerSavesEmpty(w) ==
    /\ last.op = "load"
    /\ StoreIsWhole(store)
    /\ store' = save_overwriting_empty_root(store, w)
    /\ store' # store
    /\ UNCHANGED <<heap, root, last_saved, version, size, bad, threads, status, snap, kv, last, nops>>

\* another MutableTree on the same store, loaded at version w - 1 when the
\* root record of that version was a node, saves: a reference root at (w, 1)
OtherOwnerSavesReference(w) ==
    /\ last.op = "load"
    /\ StoreIsWhole(store)
    /\ w > 1
    /\ <<w - 1, NEW_ROOT_NONCE>> \in DOMAIN store
    /\ make_fetched_node(store[<<w - 1, NEW_ROOT_NONCE>>]).t = "Deserialized"
    /\ store' = save_overwriting_reference_root(store, w, <<w - 1, NEW_ROOT_NONCE>>)
    /\ store' # store
    /\ UNCHANGED <<heap, root, last_saved, version, size, bad, threads, status, snap, kv, last, nops>>

\* the store no longer has the record of one node key
RecordLost(nk) ==
    /\ last.op = "load"
    /\ StoreIsWhole(store)
    /\ nk \in DOMAIN store
    /\ store' = [x \in DOMAIN store \ {nk} |-> store[x]]
    /\ UNCHANGED <<heap, root, last_saved, version, size, bad, threads, status, snap, kv, last, nops>>

\* ImmutableTree::get of the loaded tree
ChildGet(k) ==
    /\ nops < MaxOpsChild
    /\ status = "ok"
    /\ last_saved.some
    /\ nops' = nops + 1
    /\ last' = Last("get", get(heap, store, last_saved.root, k).st)
    /\ UNCHANGED <<heap, root, last_saved, version, size, store, bad, threads, status, snap, kv>>

ChildInsert(k) == nops < MaxOpsChild /\ status = "ok" /\ InsertStep(k, MaxVal)

ChildRemove(k) == nops < MaxOpsChild /\ status = "ok" /\ RemoveStep(k)

NextChild ==
    \/ \E w \in 1..MaxVersionReload : OtherOwnerSavesEmpty(w)
    \/ \E w \in 1..MaxVersionReload : OtherOwnerSavesReference(w)
    \/ \E nk \in (1..MaxVersionReload) \X (1..MaxKeyChild) : RecordLost(nk)
    \/ \E k \in KeysChild : ChildGet(k)
    \/ \E k \in KeysChild : ChildInsert(k)
    \/ \E k \in KeysChild : ChildRemove(k)

\* a loaded tree whose store is written by another owner or loses records
SpecChild == InitChild /\ [][NextChild]_vars

\* ------------------------------------------------- the tree as a client sees it
\* the node behind a child slot: the live node of a Full child, the node the
\* store gives back for a Part child (a leaf with key 0 if it cannot be loaded)
ChildNode(c) ==
    LET f == fetch_full(heap, store, c)
    IN  IF f.st = "ok" THEN f.heap[f.h] ELSE DraftedLeaf(0, 0)

\* the keys of the leaves below a node, left to right
RECURSIVE LeafKeys(_)
LeafKeys(n) ==
    IF n.leaf THEN <<n.key>>
    ELSE LeafKeys(ChildNode(n.left)) \o LeafKeys(ChildNode(n.right))

\* the inner nodes at or below a node
RECURSIVE InnerNodes(_)
InnerNodes(n) ==
    IF n.leaf THEN {}
    ELSE {n} \cup InnerNodes(ChildNode(n.left)) \cup InnerNodes(ChildNode(n.right))

\* the leaves at or below a node
RECURSIVE LeafNodes(_)
LeafNodes(n) ==
    IF n.leaf THEN {n}
    ELSE LeafNodes(ChildNode(n.left)) \cup LeafNodes(ChildNode(n.right))

Range(sq) == {sq[i] : i \in DOMAIN sq}

TreeLeafKeys == IF root = 0 THEN <<>> ELSE LeafKeys(heap[root])

TreeInnerNodes == IF root = 0 THEN {} ELSE InnerNodes(heap[root])

TreeLeafNodes == IF root = 0 THEN {} ELSE LeafNodes(heap[root])

StoredKeys == Range(TreeLeafKeys)

\* some node on the way from the root is only a reference into the store
HasPartChild == \E n \in TreeInnerNodes : ~n.left.full \/ ~n.right.full

\* the keys the calls so far have left in the tree, by the history kv
Present == {k \in DOMAIN kv : kv[k] # 0}

\* ------------------------------------------------------------------ claims
\* C1: get(k) returns the value of the last insert of k that was not followed
\* by a remove of k, and None if there is none; the same holds when the
\* search passes through nodes reloaded from the store.
C1_GetReturnsLastInserted ==
    status = "ok" =>
        \A k \in DOMAIN kv :
            LET g == tree_get(heap, store, root, k)
            IN  g.st = "ok" /\ g.val = kv[k]

\* C1 witness: after a save, a key found below a stored reference, another key
\* updated to a second value, and a removed key reported absent.
C1_Witness ==
    /\ status = "ok"
    /\ version >= 1
    /\ root # 0
    /\ ~heap[root].leaf
    /\ ~heap[root].left.full
    /\ \E k \in Present : k < heap[root].key /\ tree_get(heap, store, root, k).val = kv[k]
    /\ \E k \in Present : kv[k] = MaxVal
    /\ \E k \in DOMAIN kv : kv[k] = 0 /\ tree_get(heap, store, root, k).val = 0
    /\ last.op = "remove" /\ last.ret = "true"

\* C2: size() is the number of distinct keys stored in the tree, and a save
\* leaves it as it was.
C2_SizeCountsKeys ==
    /\ [](status = "ok" => size = Cardinality(StoredKeys) /\ size = Len(TreeLeafKeys))
    /\ [][(last'.op = "save" /\ nops' # nops) => size' = size]_vars

\* C2 witness: a tree of three keys right after a save.
C2_Witness ==
    /\ status = "ok"
    /\ size = 3
    /\ last.op = "save"
    /\ version >= 1
    /\ Cardinality(StoredKeys) = 3

\* C3: insert(k, v) returns true exactly when k was already in the tree, and
\* then the value is replaced and size stays; it returns false exactly when k
\* was absent, and then size grows by one; on an empty tree it returns false
\* and size becomes 1.
C3_InsertReturn ==
    [][\A k \in Keys, v \in Vals :
         (last'.op = "insert" /\ status' = "ok" /\ kv'[k] = v /\ Insert(k, v)) =>
            LET o == insert(heap, store, root, size, k, v)
                g == tree_get(heap', store', root', k)
            IN  /\ o.ret <=> (k \in StoredKeys)
                /\ (last'.ret = "true") <=> o.ret
                /\ g.st = "ok" /\ g.val = v
                /\ o.ret => size' = size
                /\ ~o.ret => size' = size + 1
                /\ root = 0 => (~o.ret /\ size' = 1)]_vars

\* C3 witness: an insert that reported an update in a tree of several keys
\* with a saved version behind it.
C3_Witness ==
    /\ status = "ok"
    /\ last.op = "insert" /\ last.ret = "true"
    /\ version >= 1
    /\ size >= 2
    /\ HasPartChild

\* C4: remove(k) returns true exactly when k was in the tree, and then size
\* drops by one and get(k) finds nothing; otherwise it returns false and size
\* stays.
C4_RemoveReturn ==
    [][\A k \in Keys :
         (last'.op = "remove" /\ status' = "ok" /\ kv'[k] = 0 /\ Remove(k)) =>
            LET o == remove(heap, store, root, size, k)
                g == tree_get(heap', store', root', k)
            IN  /\ o.ret <=> (k \in StoredKeys)
                /\ (last'.ret = "true") <=> o.ret
                /\ g.st = "ok" /\ g.val = 0
                /\ o.ret => size' = size - 1
                /\ ~o.ret => size' = size]_vars

\* C4 witness: a remove that reported the key found and left two or more keys.
C4_Witness ==
    /\ status = "ok"
    /\ last.op = "remove" /\ last.ret = "true"
    /\ size >= 2
    /\ size = Cardinality(Present)
    /\ version >= 1

\* C5: every inner node's size is the sum of its two children's sizes, the
\* nodes synthesized by rotations included.
C5_SizeIsSumOfChildren ==
    status = "ok" =>
        \A n \in TreeInnerNodes :
            n.size = ChildNode(n.left).size + ChildNode(n.right).size

\* C6: after any insert or remove, in a tree with or without saved versions,
\* the heights of the two children of every inner node differ by at most 1.
C6_BalancedHeights ==
    status = "ok" =>
        \A n \in TreeInnerNodes :
            LET d == ChildNode(n.left).height - ChildNode(n.right).height
            IN  d >= -1 /\ d <= 1

\* C6 witness: a remove whose rebalancing put a rotated node at the root (the
\* node carries the size a rotation gives it), leaving a tree of height 2.
C6_Witness ==
    /\ status = "ok"
    /\ last.op = "remove" /\ last.ret = "true"
    /\ root # 0
    /\ ~heap[root].leaf
    /\ heap[root].size =
           RotatedSize(ChildNode(heap[root].left).size, ChildNode(heap[root].right).size)
    /\ heap[root].height = 2

\* C7: every inner node's height is one more than the larger of its
\* children's heights, and every leaf has height 0.
C7_HeightFromChildren ==
    status = "ok" =>
        /\ \A n \in TreeInnerNodes :
              n.height = 1 + Max(ChildNode(n.left).height, ChildNode(n.right).height)
        /\ \A n \in TreeLeafNodes : n.height = 0

\* C7 witness: a tree of height 3 whose root has children of heights 1 and 2,
\* part of it referenced from the store.
C7_Witness ==
    /\ status = "ok"
    /\ root # 0
    /\ heap[root].height = 3
    /\ {ChildNode(heap[root].left).height, ChildNode(heap[root].right).height} = {1, 2}
    /\ version >= 1

\* C8: the leaves are in strictly ascending key order, and for every inner
\* node the keys of its left subtree are below its key and the keys of its
\* right subtree are at or above it, through splits, rotations and the
\* promotion of a sibling on removal.
C8_SortedKeys ==
    status = "ok" =>
        /\ \A i, j \in DOMAIN TreeLeafKeys : i < j => TreeLeafKeys[i] < TreeLeafKeys[j]
        /\ \A n \in TreeInnerNodes :
              /\ \A k \in Range(LeafKeys(ChildNode(n.left))) : k < n.key
              /\ \A k \in Range(LeafKeys(ChildNode(n.right))) : n.key <= k

\* C8 witness: after a remove promoted a sibling, four keys under a root whose
\* key is no longer the first key of its right subtree.
C8_Witness ==
    /\ status = "ok"
    /\ last.op = "remove" /\ last.ret = "true"
    /\ Len(TreeLeafKeys) = 4
    /\ heap[root].key < LeafKeys(ChildNode(heap[root].right))[1]

\* C9: for a key in the tree, the index get returns is the key's 0-based
\* position among the sorted keys.
C9_IndexOfPresentKey ==
    status = "ok" =>
        \A k \in Present :
            LET g == tree_get(heap, store, root, k)
            IN  g.st = "ok" /\ g.idx = Cardinality({j \in Present : j < k})

\* C10: for a key that is not in a non-empty tree, get returns the number of
\* keys below it as the index, and no value.
C10_IndexOfAbsentKey ==
    (status = "ok" /\ root # 0) =>
        \A k \in DOMAIN kv \ Present :
            LET g == tree_get(heap, store, root, k)
            IN  g.st = "ok" /\ g.val = 0 /\ g.idx = Cardinality({j \in Present : j < k})

\* ------------------------------------------------------- saving: claims
\* a successful save was the last call
SavedJustNow == last.op = "save" /\ last.ret = "ok" /\ status = "ok"

\* the step is a call of save that returned Ok
SaveReturnedOk == nops' # nops /\ last'.op = "save" /\ last'.ret = "ok"

\* the node behind a child slot, in a given heap and store
NodeOf(hp, stor, c) ==
    Bind(fetch_full(hp, stor, c), LAMBDA f :
        IF f.st = "ok" THEN f.heap[f.h] ELSE DraftedLeaf(0, 0))

\* the Merkle hash of a node, every node hashed at the version of its own
\* node key
RECURSIVE MerkleHash(_, _, _)
MerkleHash(hp, stor, n) ==
    IF n.leaf THEN LeafHash(n.version, n.key, n.value)
    ELSE InnerHash(n.height, n.size, n.version,
                   MerkleHash(hp, stor, NodeOf(hp, stor, n.left)),
                   MerkleHash(hp, stor, NodeOf(hp, stor, n.right)))

\* the Merkle hash of a root node hashed at version v
RootHashAt(hp, stor, n, v) == MerkleHash(hp, stor, [n EXCEPT !.version = v])

\* C11: on a store without faults save returns Ok after any sequence of
\* inserts and removes, removes of absent keys through Drafted inner nodes with
\* Saved children included; it never panics.
C11_SaveSucceeds == last.op = "save" => last.ret = "ok"

\* C12: a successful save returns version + 1 and sets version() to it,
\* for an empty, an unchanged and a modified tree alike; insert and remove
\* leave version() alone, so it never decreases.
C12_VersionAdvancesOnSave ==
    [][nops' # nops =>
         IF last'.op = "save" /\ last'.ret = "ok"
         THEN /\ save(heap, store, root, last_saved, version).ret = version + 1
              /\ version' = version + 1
         ELSE version' = version]_vars

\* C12 witness: the second successful save, of a tree emptied after its first
\* save wrote a node record.
C12_Witness ==
    /\ SavedJustNow
    /\ version = 2
    /\ root = 0
    /\ <<1, 1>> \in DOMAIN store
    /\ make_fetched_node(store[<<1, 1>>]).t = "Deserialized"

\* C13: after a successful save, saved_hash() is the empty-tree hash exactly
\* when the tree holds no keys, also when a saved non-empty tree was emptied
\* before the save.
C13_EmptyHashIffNoKeys ==
    SavedJustNow => ((saved_hash(last_saved) = EMPTY_ROOT_HASH) <=> (StoredKeys = {}))

\* C14 as stated: after a successful save of a non-empty tree, saved_hash() is
\* the Merkle hash of the root computed at the new version.
C14_HashAtNewVersion ==
    (SavedJustNow /\ root # 0) =>
        saved_hash(last_saved) = RootHashAt(heap, store, heap[root], version)

\* C14: after a successful save of a non-empty tree, saved_hash() is the
\* Merkle hash of the root computed at the version of the root's node key: the
\* new version when the save found the root Drafted, the version the root was
\* saved at when the save found it already Saved.
C14_HashAtRootVersion ==
    [][(SaveReturnedOk /\ status' = "ok" /\ root' # 0) =>
         /\ root # 0
         /\ heap'[root'].saved
         /\ heap'[root'].hash = MerkleHash(heap', store', heap'[root'])
         /\ saved_hash(last_saved') = heap'[root'].hash
         /\ saved_hash(last_saved') =
                RootHashAt(heap', store', heap'[root'],
                           IF heap[root].saved THEN heap[root].version ELSE version')
         /\ heap[root].saved => heap'[root'].version < version']_vars

\* C14 witness: a save at version 2 of a tree whose root is an inner node saved
\* at version 1 that a remove promoted.
C14_Witness ==
    /\ SavedJustNow
    /\ version = 2
    /\ root # 0
    /\ ~heap[root].leaf
    /\ heap[root].version = 1
    /\ heap[root].nonce > 1
    /\ saved_hash(last_saved) = MerkleHash(heap, store, heap[root])

\* C15: a save that directly follows a save of a non-empty tree advances the
\* version by one, adds one record, at (new version, nonce 1), that refers to
\* the node key of the root, writes no node record and keeps saved_hash().
C15_SaveTwice ==
    [][(SaveReturnedOk /\ SavedJustNow /\ root # 0) =>
         /\ version' = version + 1
         /\ <<version', NEW_ROOT_NONCE>> \notin DOMAIN store
         /\ DOMAIN store' = DOMAIN store \cup {<<version', NEW_ROOT_NONCE>>}
         /\ \A nk \in DOMAIN store : store'[nk] = store[nk]
         /\ store'[<<version', NEW_ROOT_NONCE>>] =
                <<NODE_DB_KEY_PREFIX, heap[root].version, heap[root].nonce>>
         /\ make_fetched_node(store'[<<version', NEW_ROOT_NONCE>>]).nk = node_key(heap[root])
         /\ saved_hash(last_saved') = saved_hash(last_saved)]_vars

\* C15 witness: two inserts and two saves; the second save left a reference to
\* the root record of version 1.
C15_Witness ==
    /\ SavedJustNow
    /\ nops = 4
    /\ size = 2
    /\ version = 2
    /\ make_fetched_node(store[<<2, 1>>]).t = "ReferenceRoot"
    /\ make_fetched_node(store[<<2, 1>>]).nk = <<1, 1>>

\* ImmutableTree::get on a snapshot: [st, idx, val]
snapshot_get(hp, stor, sn, k) == get(hp, stor, sn.root, k)

\* C16: right after a successful save the last_saved() snapshot is the state
\* committed: its version is version(), its hash is saved_hash(), and its get
\* agrees with the tree's get for every key, also when the tree committed is
\* empty after a non-empty save.
C16_SnapshotIsCommittedState ==
    (SavedJustNow /\ last_saved.some) =>
        /\ last_saved.version = version
        /\ last_saved.hash = saved_hash(last_saved)
        /\ \A k \in DOMAIN kv :
              snapshot_get(heap, store, last_saved, k).val
                  = tree_get(heap, store, root, k).val

\* the tree below a node with every child resolved, through the store where
\* the child is a Part reference
RECURSIVE ResolvedTree(_, _, _)
ResolvedTree(hp, stor, n) ==
    IF n.leaf
    THEN [saved |-> n.saved, key |-> n.key, value |-> n.value, height |-> n.height,
          size |-> n.size, version |-> n.version, nonce |-> n.nonce, hash |-> n.hash]
    ELSE [saved |-> n.saved, key |-> n.key, height |-> n.height, size |-> n.size,
          version |-> n.version, nonce |-> n.nonce, hash |-> n.hash, cnk |-> n.cnk,
          left |-> ResolvedTree(hp, stor, NodeOf(hp, stor, n.left)),
          right |-> ResolvedTree(hp, stor, NodeOf(hp, stor, n.right))]

\* every node below n is Saved and every Part reference resolves
RECURSIVE AllSaved(_, _, _)
AllSaved(hp, stor, n) ==
    /\ n.saved
    /\ n.leaf \/ ( /\ fetch_full(hp, stor, n.left).st = "ok"
                   /\ fetch_full(hp, stor, n.right).st = "ok"
                   /\ AllSaved(hp, stor, NodeOf(hp, stor, n.left))
                   /\ AllSaved(hp, stor, NodeOf(hp, stor, n.right)) )

\* C17: a clone of a snapshot keeps its hash, its version and, for every key,
\* its get result through every later insert, remove and save of the writer;
\* the nodes below its root stay Saved and keep key, value, height, size,
\* version, nonce, hash and children, whether a child is still held as a Full
\* handle or has become a Part reference.
C17_SnapshotIsStable ==
    [][(snap.some /\ nops' # nops) =>
         /\ snap'.hash = snap.hash
         /\ snap'.version = snap.version
         /\ \A k \in DOMAIN kv :
               snapshot_get(heap', store', snap', k) = snapshot_get(heap, store, snap, k)
         /\ AllSaved(heap', store', heap'[snap'.root])
         /\ ResolvedTree(heap', store', heap'[snap'.root])
                = ResolvedTree(heap, store, heap[snap.root])]_vars

\* C17 witness: a clone of version 1 whose root lost a Full child to a Part
\* reference, next to a tree that was changed and saved again and now answers
\* some key differently.
C17_Witness ==
    /\ status = "ok"
    /\ snap.some
    /\ snap.version = 1
    /\ version = 2
    /\ last_saved.hash # snap.hash
    /\ ~heap[snap.root].leaf
    /\ ~heap[snap.root].left.full
    /\ \E k \in DOMAIN kv :
          snapshot_get(heap, store, snap, k).val # tree_get(heap, store, root, k).val

\* ------------------------------------------------ store and load: claims
\* C18: no call overwrites or deletes a record that an earlier save wrote, a
\* save on a tree got from load_latest_version included; a save only adds
\* records of its new working version.
C18_RecordsAreRetained ==
    [][/\ \A nk \in DOMAIN store : nk \in DOMAIN store' /\ store'[nk] = store[nk]
       /\ \A nk \in DOMAIN store' \ DOMAIN store :
             last'.op = "save" /\ nk[1] = version + 1]_vars

\* the latest root record of the store is the empty-root marker
LatestRootIsEmpty ==
    /\ fetch_latest_root_node(store).found
    /\ fetch_latest_root_node(store).f.t = "EmptyRoot"

\* C19: load_latest_version on a store whose latest root record is the
\* empty-root marker returns an empty tree whose version() is that latest
\* version, so that the next save writes at the version after it.
C19_LoadEmptyRootKeepsVersion ==
    (last.op = "load" /\ last.ret = "ok" /\ LatestRootIsEmpty) =>
        /\ root = 0
        /\ size = 0
        /\ version = fetch_latest_root_node(store).nk[1]

\* C20: load_latest_version right after a successful save of a non-empty tree
\* returns a tree with the same version(), saved_hash() and size(), the size
\* being the number of keys stored, and the same get result for every key.
C20_SaveLoadRoundTrip ==
    [][(nops' # nops /\ last'.op = "load" /\ SavedJustNow /\ root # 0) =>
         /\ last'.ret = "ok"
         /\ version' = version
         /\ saved_hash(last_saved') = saved_hash(last_saved)
         /\ size' = size
         /\ size' = Cardinality(StoredKeys)
         /\ \A k \in DOMAIN kv :
               tree_get(heap', store', root', k) = tree_get(heap, store, root, k)]_vars

\* ------------------------------------------------- failing store: claims
\* a call of save has just returned an error
SaveReturnedErr == nops' # nops /\ last'.op = "save" /\ last'.ret = "err"

\* C21: a save that returns an error because a store call failed leaves the
\* tree with its root, and version(), size(), saved_hash() and every get
\* result as they were before the call
C21_FailedSaveKeepsTree ==
    [][SaveReturnedErr =>
          /\ (root # 0 => root' # 0)
          /\ version' = version
          /\ size' = size
          /\ saved_hash(last_saved') = saved_hash(last_saved)
          /\ \A k \in KeysFault :
                 tree_get(heap', store', root', k) = tree_get(heap, store, root, k)]_vars

\* ------------------------------------------------ last versions: claims
\* C22: save() on a tree whose version is U63::MAX returns the Overflow error
\* and leaves root, version, size, last_saved and the store as they were
C22_SaveAtMaxVersion ==
    [][(nops' # nops /\ last'.op = "save" /\ version = U63Max) =>
          /\ last'.ret = "err"
          /\ root' = root
          /\ heap' = heap
          /\ version' = version
          /\ size' = size
          /\ last_saved' = last_saved
          /\ store' = store]_vars

\* a save has returned the Overflow error on a tree that has a root
C22_Witness ==
    /\ last.op = "save"
    /\ last.ret = "err"
    /\ version = U63Max
    /\ root # 0
    /\ last_saved.some

\* ---------------------------------------------- insertion orders: claims
\* keys, heights and sizes of the nodes below a node, as a tree
RECURSIVE Shape(_, _, _)
Shape(hp, stor, n) ==
    IF n.leaf THEN [key |-> n.key, height |-> n.height, size |-> n.size]
    ELSE [key |-> n.key, height |-> n.height, size |-> n.size,
          left |-> Shape(hp, stor, NodeOf(hp, stor, n.left)),
          right |-> Shape(hp, stor, NodeOf(hp, stor, n.right))]

\* C23: four keys with fixed values inserted into a fresh tree in ascending
\* order and in descending order and then saved give the same tree shape, the
\* same node sizes and heights and the same saved_hash at version 1
C23_OrderOfInsertion ==
    (SavedJustNow /\ size = MaxLeavesOrder /\ version = 1) =>
        \E d \in {saved_descending(Present, kv)} :
            /\ d.st = "ok"
            /\ d.version = version
            /\ Shape(d.heap, d.store, d.heap[d.root]) = Shape(heap, store, heap[root])
            /\ saved_hash(d.ls) = saved_hash(last_saved)

\* ------------------------------------------------- node keys: claims
\* a save of this tree would find a record at the node key of a node it has
\* just made Saved : the assertion of recursive_make_saved_nodes fails
key_conflict(hp, stor, r, ver) ==
    /\ r # 0
    /\ ~hp[r].saved
    /\ ver < U63Max
    /\ \E m \in {recursive_make_saved_nodes(hp, stor, AsDrafted(hp[r]),
                                            WorkingVersion(ver), 0)} :
           m.st = "panic" /\ m.node.saved

\* two Saved nodes in memory with one node key are the same node
SavedNodesHaveOwnKeys ==
    \A i, j \in DOMAIN heap :
        (heap[i].saved /\ heap[j].saved /\ node_key(heap[i]) = node_key(heap[j])) =>
            /\ heap[i].leaf = heap[j].leaf
            /\ heap[i].key = heap[j].key
            /\ heap[i].hash = heap[j].hash

\* C25: in any sequence of load_latest_version, insert, remove and save on a
\* store without faults no save finds a record at the node key of a node it
\* has just made Saved, and no two distinct Saved nodes share a node key
C25_NoKeyConflict ==
    [][ /\ (nops' # nops /\ last'.op = "save") =>
              ~key_conflict(heap, store, root, version)
        /\ SavedNodesHaveOwnKeys' ]_vars

\* the nodes reachable from a node through Full children, in pre-order
RECURSIVE PreorderNodes(_, _)
PreorderNodes(hp, h) ==
    <<hp[h]>>
    \o (IF ~hp[h].leaf /\ hp[h].left.full THEN PreorderNodes(hp, hp[h].left.h) ELSE <<>>)
    \o (IF ~hp[h].leaf /\ hp[h].right.full THEN PreorderNodes(hp, hp[h].right.h) ELSE <<>>)

IsDrafted(n) == ~n.saved

\* C26: a save whose root is Drafted makes exactly the Drafted nodes reachable
\* through Full children Saved; the k of them get the working version and the
\* nonces 1..k in pre-order, exactly k records are written, at the keys
\* (working version, 1..k), and Saved subtrees get no nonce and no record
C26_NoncesInPreorder ==
    [][(SaveReturnedOk /\ root # 0 /\ ~heap[root].saved) =>
          \E pre \in {SelectSeq(PreorderNodes(heap, root), IsDrafted)} :
          \E post \in {SelectSeq(PreorderNodes(heap', root'),
                                 LAMBDA n : n.version = version')} :
              /\ version' = version + 1
              /\ DOMAIN store' \ DOMAIN store = {<<version', n>> : n \in 1..Len(pre)}
              /\ \A nk \in DOMAIN store : store'[nk] = store[nk]
              /\ \A n \in Range(PreorderNodes(heap', root')) : n.saved
              /\ Len(post) = Len(pre)
              /\ \A i \in 1..Len(pre) :
                     /\ post[i].nonce = i
                     /\ post[i].leaf = pre[i].leaf
                     /\ post[i].key = pre[i].key
                     /\ post[i].height = pre[i].height
                     /\ store'[<<version', i>>] = serialize(post[i])]_vars

\* a save has just made three or more Drafted nodes Saved above a subtree
\* that was Saved before
C26_Witness ==
    /\ SavedJustNow
    /\ root # 0
    /\ heap[root].version = version
    /\ Len(SelectSeq(PreorderNodes(heap, root), LAMBDA n : n.version = version)) >= 3
    /\ \E n \in Range(PreorderNodes(heap, root)) : n.saved /\ n.version < version

\* ------------------------------------------------ stored records: claims
\* the store holds a node record at nk
IsNodeRecord(stor, nk) ==
    /\ nk \in DOMAIN stor
    /\ make_fetched_node(stor[nk]).t = "Deserialized"
    /\ make_fetched_node(stor[nk]).ok

\* C27: at every point in time every inner-node record in the store has both
\* child node keys resolving to node records in the store, never missing,
\* never an empty-root marker, never a reference root
C27_ChildRecordsExist ==
    \A nk \in DOMAIN store :
        \E f \in {make_fetched_node(store[nk])} :
            (f.t = "Deserialized" /\ f.ok /\ ~f.node.leaf) =>
                /\ IsNodeRecord(store, f.node.left.nk)
                /\ IsNodeRecord(store, f.node.right.nk)

\* C29: every reference-root record stored at (v, 1) points to a node key of
\* a version below v that resolves in the store to a node record
C29_ReferenceRootTarget ==
    \A nk \in DOMAIN store :
        \E f \in {make_fetched_node(store[nk])} :
            f.t = "ReferenceRoot" =>
                /\ nk[2] = NEW_ROOT_NONCE
                /\ f.nk[1] < nk[1]
                /\ IsNodeRecord(store, f.nk)

\* C28: after successful saves up to version n the store holds for every
\* version 1..n one root record at nonce 1 (a node record, an empty-root
\* marker or a reference root), markers and references nowhere else, and
\* fetch_latest_root_node returns the record at (n, 1)
C28_RootRecordPerVersion ==
    status = "ok" =>
        /\ \A v \in 1..version : <<v, NEW_ROOT_NONCE>> \in DOMAIN store
        /\ \A nk \in DOMAIN store :
               /\ nk[1] \in 1..version
               /\ make_fetched_node(store[nk]).t # "Deserialized" => nk[2] = NEW_ROOT_NONCE
        /\ \E l \in {fetch_latest_root_node(store)} :
               IF version = 0 THEN ~l.found
               ELSE /\ l.found
                    /\ l.nk = <<version, NEW_ROOT_NONCE>>
                    /\ l.f = make_fetched_node(store[<<version, NEW_ROOT_NONCE>>])

\* two saves have left a node record as the root record of version 1 and an
\* empty-root marker as the root record of version 2
C28_Witness ==
    /\ SavedJustNow
    /\ version = 2
    /\ fetch_latest_root_node(store).f.t = "EmptyRoot"
    /\ IsNodeRecord(store, <<1, NEW_ROOT_NONCE>>)

\* --------------------------------------------------- node db: claims
\* C30: fetch_one_node on the key of a record the node db wrote returns the
\* matching kind: EmptyRoot for an empty-root marker, ReferenceRoot with the
\* original node key for a reference root, Deserialized with the same key,
\* height, size and child node keys for a node record of any height 0..127;
\* a key without a record returns None
C30_FetchMatchesSave ==
    /\ last.op = "save_overwriting_one_node" =>
           \E r \in {fetch_one_node(store, node_key(last.ret))} :
               /\ r.found
               /\ r.f.t = "Deserialized"
               /\ r.f.ok
               /\ r.f.node.leaf = last.ret.leaf
               /\ r.f.node.key = last.ret.key
               /\ r.f.node.value = last.ret.value
               /\ r.f.node.height = last.ret.height
               /\ r.f.node.size = last.ret.size
               /\ ~last.ret.leaf =>
                      /\ r.f.node.left = Part(last.ret.cnk[1])
                      /\ r.f.node.right = Part(last.ret.cnk[2])
                      /\ r.f.hash = last.ret.hash
    /\ last.op = "save_overwriting_empty_root" =>
           \E r \in {fetch_one_node(store, <<last.ret, NEW_ROOT_NONCE>>)} :
               r.found /\ r.f.t = "EmptyRoot"
    /\ last.op = "save_overwriting_reference_root" =>
           \E r \in {fetch_one_node(store, <<last.ret[1], NEW_ROOT_NONCE>>)} :
               r.found /\ r.f.t = "ReferenceRoot" /\ r.f.nk = last.ret[2]
    /\ \A nk \in DbKeys \ DOMAIN store : ~fetch_one_node(store, nk).found

\* an inner node of height 127 was written over a reference root and read
\* back, next to a key without a record
C30_Witness ==
    /\ nops = 2
    /\ last.op = "save_overwriting_one_node"
    /\ last.ret.height = U7Max
    /\ node_key(last.ret) = <<1, NEW_ROOT_NONCE>>
    /\ fetch_one_node(store, <<1, NEW_ROOT_NONCE>>).f.node.height = U7Max
    /\ DbKeys \ DOMAIN store # {}
\* --------------------------------------------- writer and readers: claims
\* some call is in progress
SomeCallRuns == threads.wq # <<>> \/ SomeReaderRuns

\* the lock steps of a call are those of the call : every slot is replaced
\* under the write guard of its node, every dropped guard was held, no guard
\* is taken twice, and at the end the nodes are as the call leaves them
LocksFollowTheCall ==
    /\ threads.wq # <<>> =>
          \E e \in {Head(threads.wq)} :
              /\ e.e = "x" => WriterHolds(e.h, "w")
              /\ e.e = "u" => (WriterHolds(e.h, "r") \/ WriterHolds(e.h, "w"))
              /\ e.e = "r" => ~WriterHolds(e.h, "r")
    /\ (threads.wq = <<>> /\ threads.wop.op # "none") =>
          /\ {g \in threads.held : g[1] = 0} = {}
          /\ threads.wop.op \in {"insert", "remove"} =>
                \A h \in 1..Len(heap) : heap[h] = threads.wop.o.heap[h]

\* C24: with one writer thread calling insert, remove and save and reader
\* threads calling get on clones of a saved version's ImmutableTree, the
\* threads never all wait for one another, whether or not the locks let
\* readers pass a waiting writer, and every get that has returned
\* returned what get returns on that clone with no writer running.
C24_ReadersAndWriter ==
    /\ SomeCallRuns =>
          (WriterCanStep \/ \E i \in 1..MaxReaders : ReaderCanStepBehindWriters(i))
    /\ \A i \in 1..MaxReaders :
          threads.rd[i].st = "done" =>
              threads.rd[i].res = threads.expect[threads.rd[i].key]

\* a get has returned the value of its key while the writer, inside a call,
\* is parked in node.write() on a node that another reader is still below
C24_Witness ==
    /\ threads.wq # <<>>
    /\ ~WriterCanStep
    /\ \E i \in 1..MaxReaders :
          /\ threads.rd[i].st = "done"
          /\ threads.rd[i].res.st = "ok"
          /\ threads.rd[i].res.val # 0
    /\ \E j \in 1..MaxReaders :
          /\ threads.rd[j].st = "run"
          /\ Len(threads.rd[j].path) > 1
          /\ <<j, Head(threads.wq).h, "r">> \in threads.held

\* ------------------------------------------------ make_balanced: claims
\* every inner node at or below n has children whose heights differ by at
\* most 1
BalancedBelow(hp, st, n) ==
    \A m \in InnersOf(hp, st, n) :
        NodeBehind(hp, st, m.left).height - NodeBehind(hp, st, m.right).height \in -1..1

\* what C31 asks of make_balanced over the subtrees behind a and b
MakeBalancedIsRight(a, b) ==
    \E self \in {JoinedNode(heap, store, a, b)} :
    \E o \in {make_balanced(heap, store, self)} :
        /\ o.st = "ok"
        /\ ~o.node.leaf
        /\ BalancedBelow(o.heap, store, o.node)
        /\ LeavesOf(o.heap, store, o.node)
             = LeavesOf(heap, store, heap[a]) \o LeavesOf(heap, store, heap[b])
        /\ IsBalanced(heap[a].height - heap[b].height) =>
              /\ o.node.key = self.key
              /\ o.node.height = self.height
              /\ o.node.size = self.size
              /\ o.node.left = Full(a) /\ o.node.right = Full(b)
              /\ o.heap[a] = heap[a] /\ o.heap[b] = heap[b]

\* C31: make_balanced on a Drafted inner node over two balanced subtrees
\* whose heights differ by at most 2 returns an inner node under which the
\* heights of the two children of every inner node differ by at most 1 and
\* which has the same leaves in the same order ; where the heights differed
\* by at most 1 the node keeps its key, height, size and children.
C31_MakeBalanced ==
    [][last'.op = "make_balanced" /\ nops' = nops + 1
         => /\ BalancedBelow(heap, store, heap[last'.ret.left])
            /\ BalancedBelow(heap, store, heap[last'.ret.right])
            /\ MakeBalancedIsRight(last'.ret.left, last'.ret.right)]_vars

\* C31 witness: make_balanced has returned over a left subtree two lower
\* than the right one, all of whose nodes were live, and put two new nodes
\* below the node it returned (a double rotation)
C31_Witness ==
    /\ last.op = "make_balanced"
    /\ last.ret.st = "ok"
    /\ last.ret.diff = -2
    /\ last.ret.made = 2
    /\ version = 0

\* ---------------------------------------------------- leaf split: claims
\* the leaf the descent of recursive_insert for key k ends at, and the heap
\* as the descent leaves it : [st, heap, h]
RECURSIVE ReachedLeaf(_, _, _, _)
ReachedLeaf(hp0, st, h, k) ==
    IF hp0[h].leaf THEN Res("ok", hp0, h)
    ELSE
    Bind(TakeFetch(hp0, st, h, "left"), LAMBDA t1 :
    IF t1.st # "ok" THEN t1 ELSE
    Bind(TakeFetch(t1.heap, st, h, "right"), LAMBDA t2 :
    IF t2.st # "ok" THEN t2 ELSE
    ReachedLeaf(t2.heap, st, IF InsertGoesLeft(k, hp0[h].key) THEN t1.h ELSE t2.h, k)))

\* the handles below the node behind h, through Full children
RECURSIVE HandlesBelow(_, _)
HandlesBelow(hp, h) ==
    IF hp[h].leaf THEN {h}
    ELSE {h} \cup (IF hp[h].left.full THEN HandlesBelow(hp, hp[h].left.h) ELSE {})
             \cup (IF hp[h].right.full THEN HandlesBelow(hp, hp[h].right.h) ELSE {})

\* what C32 asks of an insert of (k, v) into the tree as it is
LeafSplitIsRight(k, v) ==
    \E at \in {ReachedLeaf(heap, store, root, k)} :
    \E L \in {at.heap[at.h]} :
    \E r \in {handle_leaf_insert_case(at.heap, at.h, L.key, k, v)} :
    \E o \in {insert(heap, store, root, size, k, v)} :
        (at.st = "ok" /\ L.key # k) =>
            /\ r.st = "ok" /\ ~r.updated
            /\ ~r.node.leaf /\ ~r.node.saved
            /\ r.node.height = 1 /\ r.node.size = 2
            /\ r.node.key = Max(k, L.key)
            /\ r.node.left.full /\ r.node.right.full
            /\ \E old \in {IF k < L.key THEN r.node.right.h ELSE r.node.left.h},
                  new \in {IF k < L.key THEN r.node.left.h ELSE r.node.right.h} :
                  /\ old = at.h
                  /\ r.heap[old] = L
                  /\ r.heap[new] = DraftedLeaf(k, v)
                  /\ r.heap[r.node.left.h].key < r.heap[r.node.right.h].key
            \* the handle of L is in the tree the insert returns, unchanged
            /\ o.st = "ok"
            /\ at.h \in HandlesBelow(o.heap, o.root)
            /\ o.heap[at.h] = L

\* C32: when insert reaches a leaf L whose key differs from the new key, L is
\* replaced by a Drafted inner node of height 1 and size 2 whose key is the
\* larger of the two keys, whose left child is the leaf with the smaller key
\* and whose right child the leaf with the larger key, one of them the handle
\* of L itself with L unchanged behind it.
C32_LeafSplit ==
    (status = "ok" /\ root # 0) =>
        \A k \in Keys, v \in Vals : LeafSplitIsRight(k, v)

\* C32 witness: an insert has split a leaf of a saved version ; the root is the
\* new Drafted inner node, over the Saved leaf and the new Drafted leaf
C32_Witness ==
    /\ status = "ok"
    /\ last.op = "insert" /\ last.ret = "false"
    /\ root # 0
    /\ ~heap[root].leaf /\ ~heap[root].saved
    /\ heap[root].height = 1 /\ heap[root].size = 2
    /\ heap[root].left.full /\ heap[root].right.full
    /\ {heap[heap[root].left.h].saved, heap[heap[root].right.h].saved} = {TRUE, FALSE}
    /\ last_saved.some
    /\ last_saved.root \in {heap[root].left.h, heap[root].right.h}

\* ------------------------------------------- remove of an absent key: claims
\* a remove has just returned false
RemoveMissedJustNow ==
    /\ last'.op = "remove" /\ last'.ret = "false"
    /\ nops' = nops + 1

\* C33: a remove that returns false leaves size(), version() and the result
\* of every get as they were, and a save called next returns what it would
\* have returned without the remove, with the same stored records and the
\* same saved_hash().
C33_AbsentRemoveIsNoOp ==
    [][RemoveMissedJustNow =>
         /\ size' = size
         /\ version' = version
         /\ \A k \in Keys : tree_get(heap', store', root', k) = tree_get(heap, store, root, k)
         /\ \E before \in {save(heap, store, root, last_saved, version)},
               after \in {save(heap', store', root', last_saved', version')} :
               /\ after.st = before.st
               /\ after.ret = before.ret
               /\ after.store = before.store
               /\ saved_hash(after.ls) = saved_hash(before.ls)]_vars

\* ------------------------------------------- write guards: claims
\* the write guards of the writer
WriteGuards == {g \in threads.held : g[1] = 0 /\ g[3] = "w"}

\* the writer's call is about to call itself on another node
AboutToRecurse == threads.wq # <<>> /\ Head(threads.wq).e = "call"

\* C34: in insert, remove, rebalancing and save no write guard of a node is
\* alive when the call recurses into another node.
C34_NoWriteGuardAcrossRecursion ==
    AboutToRecurse => WriteGuards = {}

\* ------------------------------------------- node stages: claims
\* the fields of a node that are fixed once it is Saved
SavedFields(n) == <<n.leaf, n.key, n.value, n.height, n.size, n.version, n.hash, n.nonce>>

\* from heap hp to heap hp2 every handle is still there, a Saved node is
\* still Saved with the same fields, and a Drafted node became Saved only
\* where promote allows it
StagesForward(hp, hp2, promote) ==
    /\ Len(hp2) >= Len(hp)
    /\ \A h \in 1..Len(hp) :
          /\ hp[h].saved => (hp2[h].saved /\ SavedFields(hp2[h]) = SavedFields(hp[h]))
          /\ (~hp[h].saved /\ hp2[h].saved) => promote

\* some handle of hp is Drafted and is Saved in hp2
Promoted(hp, hp2) == \E h \in 1..Len(hp) : ~hp[h].saved /\ hp2[h].saved

\* C35: whatever is called next, no handle goes from Saved back to Drafted,
\* the key, value, height, size, version, hash and nonce behind a Saved
\* handle stay as they are, and a Drafted handle becomes Saved only in save.
C35_StagesOnlyForward ==
    status = "ok" =>
        /\ StagesForward(heap, save(heap, store, root, last_saved, version).heap, TRUE)
        /\ \A k \in Keys :
              /\ StagesForward(heap, remove(heap, store, root, size, k).heap, FALSE)
              /\ \A v \in Vals :
                    StagesForward(heap, insert(heap, store, root, size, k, v).heap, FALSE)

\* a tree with a Saved leaf and Drafted nodes above it, which save promotes
\* behind the handles they have
C35_Witness ==
    /\ status = "ok"
    /\ root # 0
    /\ ~heap[root].saved
    /\ \E h \in 1..Len(heap) : heap[h].saved
    /\ Promoted(heap, save(heap, store, root, last_saved, version).heap)

\* ------------------------------------------- Saved above, Saved below: claims
\* every Full child of a Saved inner node of the heap is a Saved node
SavedChildrenAreSaved(hp) ==
    \A h \in 1..Len(hp) :
        (hp[h].saved /\ ~hp[h].leaf) =>
            \A c \in {hp[h].left, hp[h].right} : c.full => hp[c.h].saved

\* no Drafted node is reachable from handle h through Full children
NoDraftedBelow(hp, h) == \A g \in HandlesBelow(hp, h) : hp[g].saved

\* C36: a child of a Saved inner node is a Part or a Full handle to a Saved
\* node; after a save that returned Ok nothing Drafted is reachable from the
\* root; after an insert that returned Ok the root is Drafted.
C36_SavedBelowSaved ==
    /\ SavedChildrenAreSaved(heap)
    /\ (last.op = "save" /\ last.ret = "ok" /\ root # 0) => NoDraftedBelow(heap, root)
    /\ (last.op = "insert" /\ last.ret \in {"true", "false"}) =>
           (root # 0 /\ ~heap[root].saved)

\* a saved tree of several nodes whose root holds a Full child, and an insert
\* into a saved tree that left Saved nodes under the new Drafted root
C36_Witness ==
    /\ last.op = "insert"
    /\ last.ret = "true"
    /\ root # 0
    /\ ~heap[root].saved
    /\ \E h \in HandlesBelow(heap, root) :
          /\ heap[h].saved
          /\ ~heap[h].leaf
          /\ heap[h].left.full \/ heap[h].right.full

\* ------------------------------------------- an insert or remove that fails: claims
\* the step is an insert or a remove that returned Err
InsertOrRemoveErredJustNow ==
    nops' # nops /\ last'.op \in {"insert", "remove"} /\ last'.ret = "err"

\* C37: an insert or remove that returns Err leaves the tree with the root it
\* had, and size(), version() and the result of every get as they were.
C37_FailedCallKeepsTree ==
    [][InsertOrRemoveErredJustNow =>
         /\ (root' = 0) = (root = 0)
         /\ size' = size
         /\ version' = version
         /\ \A k \in Keys : tree_get(heap', store', root', k) = tree_get(heap, store, root, k)]_vars

\* ------------------------------------------- children that are no nodes: claims
\* the Part children of the nodes of the heap
PartChildren ==
    {c \in UNION {{heap[h].left, heap[h].right} : h \in {g \in 1..Len(heap) : ~heap[g].leaf}} :
        ~c.full}

\* the kind of record the store has at a node key
RecordKind(nk) ==
    IF nk \notin DOMAIN store THEN "none" ELSE make_fetched_node(store[nk]).t

\* C38: a Part child whose node key has an empty-root marker or a reference
\* root in the store is an InvalidChild error of fetch_full, one whose node
\* key has no record is ChildNotFound, and fetch_full never hands out a node
\* for either; get, insert and remove (rebalancing included), which load
\* children that way, return and do not panic.
C38_ChildThatIsNoNode ==
    /\ \A c \in PartChildren :
          /\ RecordKind(c.nk) \in {"EmptyRoot", "ReferenceRoot"} =>
                 (fetch_full_error(store, c) = "InvalidChild"
                  /\ fetch_full(heap, store, c).st = "err")
          /\ RecordKind(c.nk) = "none" =>
                 (fetch_full_error(store, c) = "ChildNotFound"
                  /\ fetch_full(heap, store, c).st = "err")
    /\ status # "panicked"

====
